---- MODULE Spec2Model ----
(***************************************************************************)
(* Model of the oruba-coin-worker processes.                               *)
(*                                                                         *)
(*   - the volume worker (src/src/index.js): one startWorker instance with *)
(*     its rolling windows, its cooldown map, its WebSocket handle, its    *)
(*     reconnect and symbol-refresh timers;                                *)
(*   - the price-alert worker (src/unnamed/part_001): handlePriceUpdate    *)
(*     and the per-rule cooldown map.                                      *)
(*                                                                         *)
(* Every callback of the Node.js event loop is one action: a callback runs *)
(* to its first await (or to its end) without interleaving, and the        *)
(* continuation after an await is another action.                          *)
(***************************************************************************)
EXTENDS Integers, Sequences, FiniteSets, TLC

VARIABLES
    \* ---- volume worker (src/src/index.js, startWorker) ----
    now,                    \* the value Date.now() returns
    volumeWindowMs,         \* config.volumeWindowMs
    notificationCooldownMs, \* config.notificationCooldownMs
    volumeThresholdUsd,     \* let volumeThresholdUsd
    windows,                \* Map symbol -> rolling window {entries, sum}
    lastBroadcastAt,        \* Map symbol -> timestamp
    dispatchLog,            \* every broadcast call started, with its outcome
    tradeLog,               \* every trade handleTrade has handled (history)
    pc,                     \* where startWorker itself is, "exited" once
                            \* the process has ended
    explicitSymbols,        \* const explicitSymbols
    trackedSymbols,         \* let trackedSymbols (an array)
    ws,                     \* let ws: the handle the variable refers to
    others,                 \* handles no longer referred to by ws, not yet closed
    reconnectAttempts,      \* let reconnectAttempts
    closedByUser,           \* let closedByUser
    reconnectTimers,        \* pending setTimeout(connect, delay), by delay
    refreshTimers,          \* pending symbol-refresh timers
    refreshFetches,         \* refreshSymbols calls of the timer awaiting the fetch
    uncaught,               \* a rejection no handler caught has happened
    lastSettingsUpdatedAt,  \* let lastSettingsUpdatedAt: <<>> is null
    settingsFetches,        \* refreshVolumeSettings calls awaiting the fetch
    settingsLog,            \* every answered settings fetch, with its effect
    \* ---- what the sockets delivered ----
    dropped,                \* trade messages the handler returned on unparsed
    accepted,               \* Map symbol -> price of the last parsed ticker
    \* ---- price-alert worker (src/unnamed/part_001, startWorker) ----
    groupedAlerts,          \* let groupedAlerts: Map symbol -> array of alerts
    triggeredAlerts,        \* Map alert id -> timestamp
    lastPrices,             \* Map symbol -> price
    priceUpdates,           \* handlePriceUpdate calls awaiting triggerAlert
    alertLog                \* every triggerAlert call started, with its outcome

tradeVars == <<now, volumeWindowMs, notificationCooldownMs, volumeThresholdUsd,
               windows, lastBroadcastAt, dispatchLog, tradeLog>>

connVars == <<ws, others, reconnectAttempts, reconnectTimers>>

symVars == <<pc, explicitSymbols, trackedSymbols, refreshTimers,
             refreshFetches, uncaught>>

alertVars == <<groupedAlerts, triggeredAlerts, lastPrices, priceUpdates,
               alertLog>>

settingsVars == <<lastSettingsUpdatedAt, settingsFetches, settingsLog>>

obsVars == <<dropped, accepted>>

\* Everything of the volume worker but the clock.
volumeVars == <<volumeWindowMs, notificationCooldownMs, volumeThresholdUsd,
                windows, lastBroadcastAt, dispatchLog, tradeLog,
                connVars, symVars, closedByUser, settingsVars>>

vars == <<tradeVars, connVars, symVars, closedByUser, alertVars, settingsVars,
          obsVars>>

----------------------------------------------------------------------------
(* Bounds of the exploration.                                              *)

\* Date.now() at the first state; Date.now() is never 0 on a running host.
StartNow == 1
\* The clock is explored up to this value.
MaxNow == 4
\* handleTrade is explored for at most this many trades.
MaxTrades == 3

\* triggerAlert is explored for at most this many calls.
MaxAlertCalls == 3
\* The cooldown of the alert rule explored, in ms.
AlertCooldownMs == 2

\* The end-to-end scenario is explored for this many trades, handled at
\* these minutes after the start.
E2ETrades == 6

ScenarioMinutes == {0, 1, 2, 15, 16, 17}

\* Consecutive connection failures explored (the counter is unbounded).
MaxAttempts == 6

\* The tracked symbols, in the order Array.prototype.sort gives them.
SymbolOrder == <<"a", "b">>

Symbols == {SymbolOrder[i] : i \in 1..Len(SymbolOrder)}

\* Lists the symbols endpoint returns (after the fetch function's filters).
FetchedLists == {<<>>, <<"a">>, <<"b">>, <<"b", "a">>, <<"a", "a">>}

\* Values of BINANCE_SYMBOLS after parseSymbols.
EnvSymbolLists == {<<>>, <<"b", "a">>}

\* The defaults main() falls back to.
DEFAULT_VOLUME_WINDOW_MS == 15 * 60000
DEFAULT_VOLUME_THRESHOLD_USD == 400000
DEFAULT_NOTIFICATION_COOLDOWN_MS == 15 * 60000

MinuteMs == 60 * 1000

\* price * quantity of the trades explored (whole USD).
TradeValues == {1, 2}

\* Configurations explored: window, cooldown and threshold are parameters
\* of startWorker (main reads them from the environment).
WindowChoices == {2}
CooldownChoices == {2, 3}
ThresholdChoices == {2}

----------------------------------------------------------------------------
(* Helpers.                                                                *)

EmptyMap == [k \in {} |-> 0]

MapSet(m, k, v) == [x \in (DOMAIN m) \cup {k} |-> IF x = k THEN v ELSE m[x]]

MapDelete(m, k) == [x \in (DOMAIN m) \ {k} |-> m[x]]

\* An optional number, <<>> or <<n>>, read as a condition.
Truthy(field) == field # <<>> /\ field[1] # 0

Min(a, b) == IF a < b THEN a ELSE b

\* The spellings with capitals that are explored, each with its lower case.
LowerCase ==
       "A" :> "a"
    @@ "B" :> "b"
    @@ "ABOVE" :> "above"
    @@ "Above" :> "above"
    @@ "GREATER_THAN" :> "greater_than"
    @@ "Greater_than" :> "greater_than"
    @@ "GT" :> "gt"
    @@ "Gt" :> "gt"
    @@ "GTE" :> "gte"
    @@ "Gte" :> "gte"
    @@ "GREATER_OR_EQUAL" :> "greater_or_equal"
    @@ "Greater_or_equal" :> "greater_or_equal"
    @@ "BELOW" :> "below"
    @@ "Below" :> "below"
    @@ "LESS_THAN" :> "less_than"
    @@ "Less_than" :> "less_than"
    @@ "LT" :> "lt"
    @@ "Lt" :> "lt"
    @@ "LTE" :> "lte"
    @@ "Lte" :> "lte"
    @@ "LESS_OR_EQUAL" :> "less_or_equal"
    @@ "Less_or_equal" :> "less_or_equal"
    @@ "EQUAL" :> "equal"
    @@ "Equal" :> "equal"
    @@ "EQUALS" :> "equals"
    @@ "Equals" :> "equals"
    @@ "EQ" :> "eq"
    @@ "Eq" :> "eq"
    @@ "CROSSES_ABOVE" :> "crosses_above"
    @@ "Crosses_above" :> "crosses_above"
    @@ "CROSS_ABOVE" :> "cross_above"
    @@ "Cross_above" :> "cross_above"
    @@ "CROSSES_BELOW" :> "crosses_below"
    @@ "Crosses_below" :> "crosses_below"
    @@ "CROSS_BELOW" :> "cross_below"
    @@ "Cross_below" :> "cross_below"

\* String(raw).toLowerCase()
toLowerCase(text) ==
    IF text \in DOMAIN LowerCase THEN LowerCase[text] ELSE text

\* The first of the texts that is not empty, "" when all are.
RECURSIVE FirstText(_)
FirstText(texts) ==
    IF texts = <<>> THEN ""
    ELSE IF Head(texts) # "" THEN Head(texts)
    ELSE FirstText(Tail(texts))

----------------------------------------------------------------------------
(* createRollingWindow: entries in insertion order and the running sum.    *)

createRollingWindow == [entries |-> <<>>, sum |-> 0]

\* An add that pushes the entry and leaves the sum.
AddUncounted(w, ts, value) ==
    [entries |-> Append(w.entries, [ts |-> ts, value |-> value]),
     sum |-> w.sum]

add(w, ts, value) ==
    [entries |-> Append(w.entries, [ts |-> ts, value |-> value]),
     sum |-> w.sum + value]

PruneKeepsAll(w, at, windowMs) == w

\* while (entries.length && entries[0].ts < cutoff) { shift; sum -= value }
RECURSIVE prune(_, _, _)
prune(w, at, windowMs) ==
    IF w.entries # <<>> /\ w.entries[1].ts < at - windowMs
    THEN prune([entries |-> Tail(w.entries),
                sum |-> w.sum - w.entries[1].value], at, windowMs)
    ELSE w

getSum(w) == w.sum

\* getWindow: the window of the symbol, created on first use.
getWindow(symbol) ==
    IF symbol \in DOMAIN windows THEN windows[symbol] ELSE createRollingWindow

----------------------------------------------------------------------------
(* handleTrade.                                                            *)

\* lastBroadcastAt.get(symbol): 0 stands for undefined (both are falsy in
\* `if (last)`).
LastOf(lba, symbol) == IF symbol \in DOMAIN lba THEN lba[symbol] ELSE 0

CooldownOffByOne(last, at, cooldownMs) ==
    last # 0 /\ at - last <= cooldownMs

CooldownNever(last, at, cooldownMs) == FALSE

\* if (last) { if (now - last < notificationCooldownMs) return; }
CooldownActive(last, at, cooldownMs) ==
    last # 0 /\ at - last < cooldownMs

MarkSkipped(lba, symbol, at) == lba

\* lastBroadcastAt.set(symbol, now), before the broadcast call is made.
MarkBroadcast(lba, symbol, at) == MapSet(lba, symbol, at)

FailureRollsBack(lba, symbol) == MapDelete(lba, symbol)

\* catch (error) { log.error(...) }: the cooldown map is left as it is.
AfterBroadcastFailure(lba, symbol) == lba

\* What Number() makes of a value that is present: <<n>> for the finite
\* number n, NotNumeric for NaN, Infinite for Infinity.
NotNumeric == <<0, 0>>

Infinite == <<0, 1>>

\* A time stamp of Infinity: later than every cutoff.
Infinity == 1000000000

\* window.add(tradeTime || now, quoteUsd): NaN and 0 are falsy, Infinity is
\* not.
EntryTime(tradeTime, at) ==
    IF tradeTime = NotNumeric \/ tradeTime = <<0>> THEN at
    ELSE IF tradeTime = Infinite THEN Infinity
    ELSE tradeTime[1]

\* `at` is the Date.now() handleTrade reads on entry.
WindowAfterTrade(symbol, tradeTime, quoteUsd, at) ==
    prune(add(getWindow(symbol), EntryTime(tradeTime, at), quoteUsd),
          at, volumeWindowMs)

\* A decision that looks at the cooldown only.
FiresBelowThreshold(symbol, sum, at) ==
    ~CooldownActive(LastOf(lastBroadcastAt, symbol), at,
                    notificationCooldownMs)

\* The trade is above the threshold and not in cooldown: a broadcast starts.
Fires(symbol, sum, at) ==
    /\ ~(sum < volumeThresholdUsd)
    /\ ~CooldownActive(LastOf(lastBroadcastAt, symbol), at,
                       notificationCooldownMs)

handleTrade(symbol, tradeTime, quoteUsd, at) ==
    LET w == WindowAfterTrade(symbol, tradeTime, quoteUsd, at)
        sum == getSum(w)
        fire == Fires(symbol, sum, at)
    IN  /\ windows' = MapSet(windows, symbol, w)
        /\ lastBroadcastAt' =
              IF fire THEN MarkBroadcast(lastBroadcastAt, symbol, at)
              ELSE lastBroadcastAt
        /\ dispatchLog' =
              IF fire
              THEN Append(dispatchLog, [symbol |-> symbol, volumeUsd |-> sum,
                                        at |-> at, status |-> "pending"])
              ELSE dispatchLog
        /\ tradeLog' = Append(tradeLog,
              [symbol |-> symbol, ts |-> EntryTime(tradeTime, at),
               value |-> quoteUsd, at |-> at, sum |-> sum, fired |-> fire,
               last |-> LastOf(lastBroadcastAt, symbol),
               threshold |-> volumeThresholdUsd,
               before |-> dispatchLog])

----------------------------------------------------------------------------
(* Trade messages and parseTradeMessage.                                   *)
(*                                                                         *)
(* A message is the `data` object of the payload.  The fields p and q are  *)
(* <<>> when absent or not convertible to a finite number and <<n>> when   *)
(* they convert to n.  The fields T and E are <<>> when null or undefined, *)
(* <<n>> when they convert to the finite number n, NotNumeric when they    *)
(* convert to NaN and Infinite when they convert to Infinity.  The field s *)
(* is "" when it is absent.                                                *)

TradeMessage(s, T, E, p, q) == [s |-> s, T |-> T, E |-> E, p |-> p, q |-> q]

NotParsed ==
    [ok |-> FALSE, symbol |-> "", tradeTime |-> <<0>>, quoteUsd |-> 0]

\* Number(data.T ?? data.E ?? Date.now()): E is read only when T is null
\* or undefined, the clock only when E is too.
TradeTimeOf(m) ==
    IF m.T # <<>> THEN m.T ELSE IF m.E # <<>> THEN m.E ELSE <<now>>

\* A message without a price read as a trade at price 0.
ParseDefaultsPrice(m) ==
    IF m.s = "" \/ m.q = <<>>
    THEN NotParsed
    ELSE [ok |-> TRUE, symbol |-> toLowerCase(m.s),
          tradeTime |-> TradeTimeOf(m),
          quoteUsd |-> IF m.p = <<>> THEN 0 ELSE m.p[1] * m.q[1]]

parseTradeMessage(m) ==
    IF m.s = "" \/ m.p = <<>> \/ m.q = <<>>
    THEN NotParsed
    ELSE [ok |-> TRUE, symbol |-> toLowerCase(m.s),
          tradeTime |-> TradeTimeOf(m),
          quoteUsd |-> m.p[1] * m.q[1]]

----------------------------------------------------------------------------
(* The WebSocket handle (package ws) as the worker sees it.                *)
(*   connecting  the handshake is in progress                              *)
(*   open        'open' was emitted                                        *)
(*   closing     close() was called on an open handle: messages can still  *)
(*               arrive, 'close' is still to be emitted                    *)
(*   failed      the handle was terminated, aborted or hit an error:       *)
(*               'close' is still to be emitted, nothing else              *)
(*   closed      'close' was emitted                                       *)
(* `opened` records that 'open' was emitted on the handle.                 *)

NoSocket ==
    [state |-> "undefined", path |-> "", streams |-> <<>>, opened |-> FALSE]

IsHandle(sock) == sock.state # "undefined"

Alive(sock) == sock.state \in {"connecting", "open", "closing", "failed"}

\* buildBinanceWsUrl: /ws/<symbol>@trade for one symbol, /stream?streams=...
\* for several, undefined for none.
buildBinanceWsUrl(symbols) ==
    IF Len(symbols) = 0 THEN [path |-> "", streams |-> <<>>]
    ELSE IF Len(symbols) = 1 THEN [path |-> "ws", streams |-> symbols]
    ELSE [path |-> "stream", streams |-> symbols]

NewWebSocket(url) ==
    [state |-> "connecting", path |-> url.path, streams |-> url.streams,
     opened |-> FALSE]

\* ws.close(): aborts a handshake, starts the closing handshake of an open
\* handle, does nothing on a handle that is closing or closed.
wsClose(sock) ==
    IF sock.state = "connecting" THEN [sock EXCEPT !.state = "failed"]
    ELSE IF sock.state = "open" THEN [sock EXCEPT !.state = "closing"]
    ELSE sock

\* ws.terminate(): destroys the connection at once.
wsTerminate(sock) ==
    IF sock.state \in {"connecting", "open", "closing"}
    THEN [sock EXCEPT !.state = "failed"]
    ELSE sock

----------------------------------------------------------------------------
(* connect, reconnect, scheduleReconnect: each maps the connection state   *)
(* c = [ws, others, reconnectAttempts, reconnectTimers] to the state after *)
(* the call.                                                               *)

Conn == [ws |-> ws, others |-> others,
         reconnectAttempts |-> reconnectAttempts,
         reconnectTimers |-> reconnectTimers]

\* The handle ws referred to stays alive when ws is reassigned.
Retire(c) == IF Alive(c.ws) THEN Append(c.others, c.ws) ELSE c.others

\* connect() without its two early returns.
ConnectAlways(c, tracked) ==
    [c EXCEPT !.ws = NewWebSocket(buildBinanceWsUrl(tracked)),
              !.others = Retire(c)]

connect(c, tracked) ==
    IF Len(tracked) = 0 THEN c
    ELSE LET url == buildBinanceWsUrl(tracked)
         IN  IF url.path = "" THEN c
             ELSE [c EXCEPT !.ws = NewWebSocket(url), !.others = Retire(c)]

\* reconnect() opening the new connection itself instead of waiting for the
\* 'close' of the old handle.
ReconnectOpensAtOnce(c, tracked, dueToSymbolsChange) ==
    IF IsHandle(c.ws)
    THEN connect([c EXCEPT !.reconnectAttempts = 0, !.ws = wsClose(c.ws)],
                 tracked)
    ELSE IF dueToSymbolsChange THEN connect(c, tracked)
    ELSE c

reconnect(c, tracked, dueToSymbolsChange) ==
    IF IsHandle(c.ws)
    THEN [c EXCEPT !.reconnectAttempts = 0, !.ws = wsClose(c.ws)]
    ELSE IF dueToSymbolsChange THEN connect(c, tracked)
    ELSE c

RECURSIVE Pow2(_)
Pow2(n) == IF n <= 0 THEN 1 ELSE 2 * Pow2(n - 1)

DEFAULT_WS_RETRY_MS == 5000
MAX_WS_RETRY_MS == 60000

\* The delay without its cap.
ReconnectDelayUncapped(attempts) == DEFAULT_WS_RETRY_MS * Pow2(attempts - 1)

ReconnectDelay(attempts) ==
    Min(DEFAULT_WS_RETRY_MS * Pow2(attempts - 1), MAX_WS_RETRY_MS)

scheduleReconnect(c) ==
    [c EXCEPT !.reconnectAttempts = c.reconnectAttempts + 1,
              !.reconnectTimers =
                  Append(c.reconnectTimers,
                         ReconnectDelay(c.reconnectAttempts + 1))]

\* The 'open' handler without its reset.
OpenKeepsCounter(c) == c

\* The body of the 'open' handler.
OpenHandler(c) == [c EXCEPT !.reconnectAttempts = 0]

\* The 'close' handler without its closedByUser test.
CloseIgnoresFlag(c, byUser) == scheduleReconnect(c)

\* The body of the 'close' handler.
CloseHandler(c, byUser) == IF byUser THEN c ELSE scheduleReconnect(c)

SetConn(c) ==
    /\ ws' = c.ws
    /\ others' = c.others
    /\ reconnectAttempts' = c.reconnectAttempts
    /\ reconnectTimers' = c.reconnectTimers

----------------------------------------------------------------------------
(* Symbol reconciliation.                                                  *)

Range(seq) == {seq[i] : i \in 1..Len(seq)}

\* Array.from(new Set(symbols)).sort()
UniqueSorted(symbols) ==
    SelectSeq(SymbolOrder, LAMBDA s : s \in Range(symbols))

symbolsEqual(a, b) ==
    /\ Len(a) = Len(b)
    /\ \A i \in 1..Len(b) : b[i] \in Range(a)

\* cleanupWindows: a key of `windows` that is not kept loses its window and
\* its cooldown record.
CleanedWindows(validSymbols) ==
    [k \in (DOMAIN windows) \cap Range(validSymbols) |-> windows[k]]

CleanedBroadcasts(validSymbols) ==
    [k \in (DOMAIN lastBroadcastAt)
            \ ((DOMAIN windows) \ Range(validSymbols)) |-> lastBroadcastAt[k]]

\* The part of refreshSymbols that runs when the fetch has returned.
ApplyFetched(symbols, c) ==
    LET unique == UniqueSorted(symbols)
    IN  IF ~symbolsEqual(unique, trackedSymbols)
        THEN [tracked |-> unique,
              windows |-> CleanedWindows(unique),
              lastBroadcastAt |-> CleanedBroadcasts(unique),
              conn |-> reconnect(c, unique, TRUE)]
        ELSE [tracked |-> trackedSymbols,
              windows |-> windows,
              lastBroadcastAt |-> lastBroadcastAt,
              conn |-> c]

\* The initial connect without its `!ws` test.
InitialConnectAlways(c, tracked) ==
    IF Len(tracked) > 0 THEN connect(c, tracked) ELSE c

\* if (!ws && trackedSymbols.length > 0) connect();
InitialConnect(c, tracked) ==
    IF ~IsHandle(c.ws) /\ Len(tracked) > 0 THEN connect(c, tracked) ELSE c

----------------------------------------------------------------------------
(* Handles by position: 0 is the handle `ws` refers to, i >= 1 is          *)
(* others[i].                                                              *)

Positions == 0..Len(others)

SockAt(p) == IF p = 0 THEN ws ELSE others[p]

RemoveAt(seq, i) == SubSeq(seq, 1, i - 1) \o SubSeq(seq, i + 1, Len(seq))

\* The connection state with the handle at position p replaced; a closed
\* handle that ws does not refer to is forgotten.
WithSock(c, p, sock) ==
    IF p = 0 THEN [c EXCEPT !.ws = sock]
    ELSE IF sock.state = "closed"
    THEN [c EXCEPT !.others = RemoveAt(c.others, p)]
    ELSE [c EXCEPT !.others[p] = sock]

----------------------------------------------------------------------------
(* startWorker: from the call to the returned control object.              *)

\* refreshSymbols fetching whatever BINANCE_SYMBOLS holds.
PinIgnored(explicit) == FALSE

\* if (explicitSymbols) return;
ReturnsPinned(explicit) == explicit

\* The call itself, up to the first await.  With pinned symbols
\* refreshSymbols returns at once and startWorker runs to its end.
StartWorker ==
    /\ pc = "start"
    /\ IF ReturnsPinned(explicitSymbols)
       THEN /\ pc' = "running"
            /\ refreshTimers' = refreshTimers + 1
            /\ SetConn(InitialConnect(Conn, trackedSymbols))
       ELSE /\ pc' = "fetching"
            /\ UNCHANGED <<refreshTimers, connVars>>
    /\ UNCHANGED <<tradeVars, explicitSymbols, trackedSymbols,
                   refreshFetches, uncaught, closedByUser, alertVars, settingsVars, obsVars>>

\* The first symbol fetch returns a list.
StartFetchOk(symbols) ==
    /\ pc = "fetching"
    /\ LET r == ApplyFetched(symbols, Conn)
       IN  /\ trackedSymbols' = r.tracked
           /\ windows' = r.windows
           /\ lastBroadcastAt' = r.lastBroadcastAt
           /\ SetConn(InitialConnect(r.conn, r.tracked))
    /\ refreshTimers' = refreshTimers + 1
    /\ pc' = "running"
    /\ UNCHANGED <<now, volumeWindowMs, notificationCooldownMs,
                   volumeThresholdUsd, dispatchLog, tradeLog,
                   explicitSymbols, refreshFetches, uncaught, closedByUser, alertVars, settingsVars, obsVars>>

\* The first symbol fetch fails: refreshSymbols rethrows, startWorker
\* catches, scheduleSymbolRefresh is skipped.
StartFetchFail ==
    /\ pc = "fetching"
    /\ pc' = "running"
    /\ SetConn(InitialConnect(Conn, trackedSymbols))
    /\ UNCHANGED <<tradeVars, explicitSymbols, trackedSymbols, refreshTimers,
                   refreshFetches, uncaught, closedByUser, alertVars, settingsVars, obsVars>>

----------------------------------------------------------------------------
(* scheduleSymbolRefresh and refreshSymbols.                               *)

\* The refresh timer fires.  With pinned symbols refreshSymbols returns at
\* once and the timer is armed again; otherwise the fetch is started.
RefreshTick ==
    /\ refreshTimers > 0
    /\ IF ReturnsPinned(explicitSymbols)
       THEN UNCHANGED <<refreshTimers, refreshFetches>>
       ELSE /\ refreshTimers' = refreshTimers - 1
            /\ refreshFetches' = refreshFetches + 1
    /\ UNCHANGED <<tradeVars, connVars, pc, explicitSymbols, trackedSymbols,
                   uncaught, closedByUser, alertVars, settingsVars, obsVars>>

\* The fetch of a timer's refreshSymbols returns a list; the timer is armed
\* again.
RefreshOk(symbols) ==
    /\ refreshFetches > 0
    /\ LET r == ApplyFetched(symbols, Conn)
       IN  /\ trackedSymbols' = r.tracked
           /\ windows' = r.windows
           /\ lastBroadcastAt' = r.lastBroadcastAt
           /\ SetConn(r.conn)
    /\ refreshFetches' = refreshFetches - 1
    /\ refreshTimers' = refreshTimers + 1
    /\ UNCHANGED <<now, volumeWindowMs, notificationCooldownMs,
                   volumeThresholdUsd, dispatchLog, tradeLog,
                   pc, explicitSymbols, uncaught, closedByUser, alertVars, settingsVars, obsVars>>

\* The process ends, by process.exit or on an unhandled rejection, with
\* `sock` the handle ws refers to: its sockets are destroyed without a
\* 'close' being observed, its timers, the fetches it awaits and the calls
\* in flight are gone, and so is what it held in memory.  The logs, which
\* record what happened, the clock and the configuration stay.
EndOfProcess(sock) ==
    /\ pc' = "exited"
    /\ ws' = wsTerminate(sock)
    /\ others' = [i \in 1..Len(others) |-> wsTerminate(others[i])]
    /\ reconnectAttempts' = 0
    /\ reconnectTimers' = <<>>
    /\ refreshTimers' = 0
    /\ refreshFetches' = 0
    /\ settingsFetches' = 0
    /\ trackedSymbols' = <<>>
    /\ windows' = EmptyMap
    /\ lastBroadcastAt' = EmptyMap
    /\ lastSettingsUpdatedAt' = ""
    /\ groupedAlerts' = EmptyMap
    /\ triggeredAlerts' = EmptyMap
    /\ lastPrices' = EmptyMap
    /\ priceUpdates' = <<>>
    /\ UNCHANGED <<now, volumeWindowMs, notificationCooldownMs,
                   volumeThresholdUsd, dispatchLog, tradeLog,
                   explicitSymbols, alertLog, settingsLog, obsVars>>

\* The fetch of a timer's refreshSymbols fails: the catch block of
\* refreshSymbols logs and rethrows inside the timer's async callback,
\* which nothing catches, and scheduleSymbolRefresh is not reached.  The
\* promise of the callback is rejected with no handler and no
\* 'unhandledRejection' listener is installed, so Node (20 and later, which
\* the worker requires) ends the process.
RefreshFail ==
    /\ refreshFetches > 0
    /\ uncaught' = TRUE
    /\ closedByUser' = closedByUser
    /\ EndOfProcess(ws)

----------------------------------------------------------------------------
(* Threshold settings.  The settings endpoint answers with a payload whose *)
(* spotVolumeThreshold is <<>> when absent and <<n>> when present, and     *)
(* whose updatedAt is "" when absent.  null is "".                         *)

MaxSettingsCalls == 2

SettingsPayloads ==
    [spotVolumeThreshold : {<<>>, <<0>>, <<1>>, <<3>>},
     updatedAt : {"", "t1", "t2"}]

\* The settings fetchVolumeSettings returns for a 2xx answer, for the spot
\* worker.
fetchVolumeSettings(payload) ==
    [spotVolumeThreshold |->
         IF Truthy(payload.spotVolumeThreshold)
         THEN payload.spotVolumeThreshold[1]
         ELSE DEFAULT_VOLUME_THRESHOLD_USD,
     updatedAt |-> payload.updatedAt]

\* The test taken as passed by every answer.
SettingsAlwaysChanged(last, settings) == TRUE

\* const settingsChanged
settingsChanged(last, settings) ==
    \/ last = ""
    \/ settings.updatedAt # "" /\ settings.updatedAt # last

\* A reload that starts the windows afresh.
ReloadResetsWindows(w) == EmptyMap

\* The windows after a reload: refreshVolumeSettings does not touch them.
WindowsAfterReload(w) == w

\* control.refreshSettings() is called: refreshVolumeSettings runs to its
\* await of the fetch.  The control object exists once startWorker has
\* returned.
RefreshSettings ==
    /\ pc = "running"
    /\ Len(settingsLog) + settingsFetches < MaxSettingsCalls
    /\ settingsFetches' = settingsFetches + 1
    /\ UNCHANGED <<tradeVars, connVars, symVars, closedByUser, alertVars,
                   lastSettingsUpdatedAt, settingsLog, obsVars>>

\* The fetch is answered: the rest of the try block.
SettingsOk(payload) ==
    /\ settingsFetches > 0
    /\ settingsFetches' = settingsFetches - 1
    /\ LET settings == fetchVolumeSettings(payload)
           newThreshold == settings.spotVolumeThreshold
       IN  IF settingsChanged(lastSettingsUpdatedAt, settings)
           THEN /\ volumeThresholdUsd' = newThreshold
                /\ lastSettingsUpdatedAt' = settings.updatedAt
                /\ windows' = WindowsAfterReload(windows)
           ELSE UNCHANGED <<volumeThresholdUsd, lastSettingsUpdatedAt,
                            windows>>
    /\ settingsLog' =
           Append(settingsLog,
                  [settings |-> fetchVolumeSettings(payload),
                   marker |-> lastSettingsUpdatedAt,
                   threshold |-> volumeThresholdUsd,
                   markerAfter |-> lastSettingsUpdatedAt',
                   thresholdAfter |-> volumeThresholdUsd',
                   trades |-> Len(tradeLog)])
    /\ UNCHANGED <<now, volumeWindowMs, notificationCooldownMs,
                   lastBroadcastAt, dispatchLog, tradeLog, connVars, symVars,
                   closedByUser, alertVars, obsVars>>

\* The fetch fails or is answered with a status that is not 2xx: the catch
\* block logs.
SettingsFail ==
    /\ settingsFetches > 0
    /\ settingsFetches' = settingsFetches - 1
    /\ UNCHANGED <<tradeVars, connVars, symVars, closedByUser, alertVars,
                   lastSettingsUpdatedAt, settingsLog, obsVars>>

----------------------------------------------------------------------------
(* The handlers connect() installs on a handle.                            *)

\* ws.on('open')
WsOpen(p) ==
    /\ SockAt(p).state = "connecting"
    /\ SetConn(OpenHandler(WithSock(Conn, p,
                   [SockAt(p) EXCEPT !.state = "open", !.opened = TRUE])))
    /\ UNCHANGED <<tradeVars, symVars, closedByUser, alertVars, settingsVars, obsVars>>

\* ws.on('error'): the handle that raised the error is going down; the
\* handler terminates the handle `ws` refers to.
WsError(p) ==
    /\ SockAt(p).state \in {"connecting", "open", "closing"}
    /\ reconnectAttempts < MaxAttempts
    /\ LET c == WithSock(Conn, p, [SockAt(p) EXCEPT !.state = "failed"])
       IN  SetConn([c EXCEPT !.ws = wsTerminate(c.ws)])
    /\ UNCHANGED <<tradeVars, symVars, closedByUser, alertVars, settingsVars, obsVars>>

\* ws.on('close'): after close(), terminate() or an error, or because the
\* peer closed an open connection.  A process that has ended observes
\* nothing.
WsClose(p) ==
    /\ pc # "exited"
    /\ SockAt(p).state \in {"open", "closing", "failed"}
    /\ SockAt(p).state = "open" => reconnectAttempts < MaxAttempts
    /\ LET c == WithSock(Conn, p, [SockAt(p) EXCEPT !.state = "closed"])
       IN  SetConn(CloseHandler(c, closedByUser))
    /\ UNCHANGED <<tradeVars, symVars, closedByUser, alertVars, settingsVars, obsVars>>

\* A timer of scheduleReconnect fires: connect().
ReconnectTimer(i) ==
    /\ i \in 1..Len(reconnectTimers)
    /\ SetConn(connect([Conn EXCEPT !.reconnectTimers =
                                       RemoveAt(reconnectTimers, i)],
                       trackedSymbols))
    /\ UNCHANGED <<tradeVars, symVars, closedByUser, alertVars, settingsVars, obsVars>>

\* The stop() of the control object startWorker returns, and the function
\* the alert worker's startWorker returns: closedByUser = true (a step of
\* its caller), and if (ws) ws.close().  The handle after the call.
stop(sock) == IF IsHandle(sock) THEN wsClose(sock) ELSE sock

\* stop() with nothing after it: the worker goes on, its timers pending.
StopAlone ==
    /\ pc = "running"
    /\ closedByUser' = TRUE
    /\ ws' = stop(ws)
    /\ UNCHANGED <<tradeVars, symVars, others, reconnectAttempts,
                   reconnectTimers, alertVars, settingsVars, obsVars>>

\* SIGINT or SIGTERM is delivered: handleExit of main, the only caller of
\* stop(), calls stop() on the spot and the futures worker, each of them a
\* worker as modelled here, and then process.exit(0), in one callback.
\* main registers it once startWorker has returned.
handleExit ==
    /\ pc = "running"
    /\ closedByUser' = TRUE
    /\ uncaught' = uncaught
    /\ EndOfProcess(stop(ws))

\* The same in the alert worker: handleExit of its main calls the function
\* startWorker returned and then process.exit(0).
AlertHandleExit ==
    /\ pc = "alerts"
    /\ closedByUser' = TRUE
    /\ uncaught' = uncaught
    /\ EndOfProcess(stop(ws))

\* ws.on('message'): parseTradeMessage, then handleTrade up to its await.
\* parseTradeMessage reads the clock at `now`, handleTrade reads it again
\* d later; a payload that is dropped never reaches the second reading.
WsMessage(p, m, d) ==
    /\ SockAt(p).state \in {"open", "closing"}
    /\ d = 0 \/ now + d <= MaxNow
    /\ LET parsed == parseTradeMessage(m)
       IN  IF parsed.ok
           THEN /\ handleTrade(parsed.symbol, parsed.tradeTime,
                           parsed.quoteUsd, now + d)
                /\ now' = now + d
                /\ dropped' = dropped
           ELSE /\ d = 0
                /\ now' = now
                /\ dropped' = dropped + 1
                /\ UNCHANGED <<windows, lastBroadcastAt, dispatchLog,
                               tradeLog>>
    /\ UNCHANGED <<volumeWindowMs, notificationCooldownMs,
                   volumeThresholdUsd, connVars, symVars, closedByUser,
                   alertVars, settingsVars, accepted>>

\* The broadcast call of a handleTrade returns 2xx.
BroadcastOk(i) ==
    /\ pc # "exited"
    /\ i \in 1..Len(dispatchLog)
    /\ dispatchLog[i].status = "pending"
    /\ dispatchLog' = [dispatchLog EXCEPT ![i].status = "ok"]
    /\ UNCHANGED <<now, volumeWindowMs, notificationCooldownMs,
                   volumeThresholdUsd, windows, lastBroadcastAt, tradeLog,
                   connVars, symVars, closedByUser, alertVars, settingsVars, obsVars>>

\* The broadcast call of a handleTrade throws (network error or non-2xx).
BroadcastFail(i) ==
    /\ pc # "exited"
    /\ i \in 1..Len(dispatchLog)
    /\ dispatchLog[i].status = "pending"
    /\ dispatchLog' = [dispatchLog EXCEPT ![i].status = "failed"]
    /\ lastBroadcastAt' =
          AfterBroadcastFailure(lastBroadcastAt, dispatchLog[i].symbol)
    /\ UNCHANGED <<now, volumeWindowMs, notificationCooldownMs,
                   volumeThresholdUsd, windows, tradeLog,
                   connVars, symVars, closedByUser, alertVars, settingsVars, obsVars>>

\* Time passes, up to minute m after the start.
TickTo(m) ==
    /\ now < StartNow + m * MinuteMs
    /\ now' = StartNow + m * MinuteMs
    /\ UNCHANGED <<volumeWindowMs, notificationCooldownMs, volumeThresholdUsd,
                   windows, lastBroadcastAt, dispatchLog, tradeLog,
                   connVars, symVars, closedByUser, alertVars, settingsVars, obsVars>>

\* Time passes.
Tick ==
    /\ now < MaxNow
    /\ now' = now + 1
    /\ UNCHANGED <<volumeWindowMs, notificationCooldownMs, volumeThresholdUsd,
                   windows, lastBroadcastAt, dispatchLog, tradeLog,
                   connVars, symVars, closedByUser, alertVars, settingsVars, obsVars>>

----------------------------------------------------------------------------
(* The feed.                                                               *)

\* The time that passes between the clock reading of parseTradeMessage and
\* that of handleTrade, in the same turn of the event loop.
ClockSteps == {0, 1}

\* Trades stamped by the exchange: no time, a time before the local clock,
\* a time ahead of it.
StampedTrades ==
    {TradeMessage(s, T, <<>>, <<v>>, <<1>>) :
        s \in Symbols, T \in {<<>>, <<now - 1>>, <<now + 1>>},
        v \in TradeValues}

\* The trade of the end-to-end scenario: 150000 USD of one symbol.
ScenarioTrades ==
    {TradeMessage(SymbolOrder[1], <<>>, <<>>, <<75000>>, <<2>>)}

\* Trades without a trade time: the entry is stamped Date.now().
UnstampedTrades ==
    {TradeMessage(s, <<>>, <<>>, <<v>>, <<1>>) :
        s \in Symbols, v \in TradeValues}

----------------------------------------------------------------------------
(* The price-alert worker (src/unnamed/part_001).  An alert is a record   *)
(* of the fields the worker reads; a threshold candidate is <<>> when it   *)
(* is absent or not a finite number and <<n>> when it is the number n, a   *)
(* cooldown field is <<>> when absent and <<n>> when present, a text field *)
(* is "" when absent or empty.                                             *)

\* alert.id || alert._id || alert.uuid
resolveAlertId(alert) == FirstText(<<alert.id, alert._id, alert.uuid>>)

\* A rule without a threshold measured against 3.
ThresholdDefaults(alert) ==
    IF alert.targetPrice # <<>> THEN alert.targetPrice ELSE <<3>>

\* The first finite candidate of targetPrice, price, threshold,
\* triggerPrice, value; <<>> for undefined.
resolveAlertThreshold(alert) ==
    LET candidates == <<alert.targetPrice, alert.price, alert.threshold,
                        alert.triggerPrice, alert.value>>
        finite == {i \in 1..Len(candidates) : candidates[i] # <<>>}
    IN  IF finite = {} THEN <<>>
        ELSE candidates[CHOOSE i \in finite : \A j \in finite : i <= j]

\* A rule without an operator read as "below".
OperatorDefaultsBelow(alert) ==
    IF alert.operator # "" THEN alert.operator ELSE "below"

\* operator || direction || comparison || condition || type, in lower case;
\* 'above' when all are empty.
resolveAlertOperator(alert) ==
    LET raw == FirstText(<<alert.operator, alert.direction, alert.comparison,
                           alert.condition, alert.type>>)
    IN  IF raw = "" THEN "above" ELSE toLowerCase(raw)

\* raw is the first truthy of cooldownMs, cooldownSeconds, cooldown, or
\* cooldown itself when none is; a raw identical to cooldownSeconds is
\* taken as seconds.
resolveCooldown(alert) ==
    LET raw == IF Truthy(alert.cooldownMs) THEN alert.cooldownMs
               ELSE IF Truthy(alert.cooldownSeconds)
                    THEN alert.cooldownSeconds
                    ELSE alert.cooldown
    IN  IF raw = <<>> THEN 0
        ELSE IF raw = alert.cooldownSeconds THEN raw[1] * 1000
        ELSE raw[1]

\* The symbol in lower case, the asset when there is no symbol; "" for
\* undefined.
resolveSymbol(alert) ==
    IF alert.symbol = "" /\ alert.asset # "" THEN toLowerCase(alert.asset)
    ELSE IF alert.symbol # "" THEN toLowerCase(alert.symbol)
    ELSE ""

\* Every operator read as a comparison of the current price alone.
LevelOnly(alert, currentPrice, previousPrice) ==
    /\ resolveAlertThreshold(alert) # <<>>
    /\ currentPrice >= resolveAlertThreshold(alert)[1]

\* The switch of shouldTriggerAlert; on whole numbers the tolerance of
\* 1e-8 of the 'equal' cases is equality.  previousPrice is <<>> when
\* undefined.
shouldTriggerAlert(alert, currentPrice, previousPrice) ==
    LET threshold == resolveAlertThreshold(alert)
        operator == resolveAlertOperator(alert)
    IN  IF threshold = <<>> THEN FALSE
        ELSE IF operator \in {"above", "greater_than", "gt", "gte",
                              "greater_or_equal", ">", ">="}
             THEN currentPrice >= threshold[1]
        ELSE IF operator \in {"below", "less_than", "lt", "lte",
                              "less_or_equal", "<", "<="}
             THEN currentPrice <= threshold[1]
        ELSE IF operator \in {"equal", "equals", "eq", "=", "=="}
             THEN currentPrice = threshold[1]
        ELSE IF operator \in {"crosses_above", "cross_above"}
             THEN /\ previousPrice # <<>>
                  /\ previousPrice[1] < threshold[1]
                  /\ currentPrice >= threshold[1]
        ELSE IF operator \in {"crosses_below", "cross_below"}
             THEN /\ previousPrice # <<>>
                  /\ previousPrice[1] > threshold[1]
                  /\ currentPrice <= threshold[1]
        ELSE currentPrice >= threshold[1]

\* groupAlertsBySymbol: alerts without a symbol are skipped, the others
\* keep their order within their symbol.
RECURSIVE groupAlertsBySymbol(_)
groupAlertsBySymbol(alerts) ==
    IF alerts = <<>> THEN EmptyMap
    ELSE LET n == Len(alerts)
             grouped == groupAlertsBySymbol(SubSeq(alerts, 1, n - 1))
             symbol == resolveSymbol(alerts[n])
         IN  IF symbol = "" THEN grouped
             ELSE IF symbol \in DOMAIN grouped
                  THEN MapSet(grouped, symbol,
                              Append(grouped[symbol], alerts[n]))
                  ELSE MapSet(grouped, symbol, <<alerts[n]>>)

\* A ticker payload: `stream` is the part of payload.stream before the
\* first '@' ("" when the payload has no stream), the other fields are
\* those of payload.data || payload.  A price field is <<>> when undefined,
\* FalsyZero when it is 0, '' or null, <<n>> when it is a non-empty string
\* or a number other than 0 that converts to n (the exchange writes '0' for
\* a price of 0), NotNumeric or Infinite when it converts to NaN or
\* Infinity.
TickerPayload(stream, s, c, p, lastPrice, price, w) ==
    [stream |-> stream, s |-> s, c |-> c, p |-> p, lastPrice |-> lastPrice,
     price |-> price, w |-> w]

\* A ticker message of the exchange: the symbol s and the last price c.
TickerMessage(s, c) == TickerPayload("", s, c, <<>>, <<>>, <<>>, <<>>)

FalsyZero == <<0, 2>>

\* data.c || data.p || data.lastPrice || data.price || data.w
priceCandidate(m) ==
    LET fields == <<m.c, m.p, m.lastPrice, m.price, m.w>>
        truthy == {i \in 1..Len(fields) :
                      fields[i] # <<>> /\ fields[i] # FalsyZero}
    IN  IF truthy = {} THEN m.w
        ELSE fields[CHOOSE i \in truthy : \A j \in truthy : i <= j]

\* parseTickerMessage: the symbol is data.s or the stream name, in lower
\* case; the payload is dropped when there is no symbol or when the price
\* candidate does not convert to a finite number.
parseTickerMessage(m) ==
    LET symbol == IF m.s # "" THEN toLowerCase(m.s)
                  ELSE IF m.stream # "" THEN toLowerCase(m.stream)
                  ELSE ""
        raw == priceCandidate(m)
    IN  IF symbol = "" \/ raw \in {<<>>, NotNumeric, Infinite}
        THEN [ok |-> FALSE, symbol |-> "", price |-> 0]
        ELSE [ok |-> TRUE, symbol |-> symbol,
              price |-> IF raw = FalsyZero THEN 0 ELSE raw[1]]

\* The cooldown test of handlePriceUpdate's loop.
AlertCooldownActive(cooldown, lastTriggeredAt, at) ==
    cooldown > 0 /\ lastTriggeredAt # 0 /\ at - lastTriggeredAt < cooldown

\* The readings of Date.now() of one step: steps[k] is what the clock has
\* advanced by between the reading before and the k-th reading (for the
\* first, since the step began); a reading beyond the sequence finds the
\* clock where the reading before left it.
MaxReadings == 2

\* The loop of handlePriceUpdate from index i on, the clock at `at`: i is
\* the index of the first alert that has an id, is not in cooldown and
\* whose condition holds, 0 when the loop runs to its end; at is the clock
\* after the loop's last reading, steps what is left for the readings that
\* follow.  Date.now() is read for every alert that has a cooldown and a
\* trigger time.
RECURSIVE NextToTrigger(_, _, _, _, _, _, _)
NextToTrigger(symbolAlerts, i, price, previousPrice, triggered, at, steps) ==
    IF i > Len(symbolAlerts) THEN [i |-> 0, at |-> at, steps |-> steps]
    ELSE LET alert == symbolAlerts[i]
             alertId == resolveAlertId(alert)
             cooldown == resolveCooldown(alert)
             lastTriggeredAt == LastOf(triggered, alertId)
             reads == alertId # "" /\ cooldown > 0 /\ lastTriggeredAt # 0
             read == IF reads /\ steps # <<>> THEN at + Head(steps) ELSE at
             rest == IF reads /\ steps # <<>> THEN Tail(steps) ELSE steps
         IN  IF \/ alertId = ""
                \/ AlertCooldownActive(cooldown, lastTriggeredAt, read)
                \/ ~shouldTriggerAlert(alert, price, previousPrice)
             THEN NextToTrigger(symbolAlerts, i + 1, price, previousPrice,
                                triggered, read, rest)
             ELSE [i |-> i, at |-> read, steps |-> rest]

\* triggerAlert up to its fetch: the body is built with the triggeredAt
\* that `new Date()` reads, `at`, and the call is on its way.
AlertCall(u, i, log, at) ==
    [alertId |-> resolveAlertId(u.symbolAlerts[i]),
     symbol |-> u.symbol, price |-> u.price,
     previous |-> u.previousPrice, at |-> at,
     cooldown |-> resolveCooldown(u.symbolAlerts[i]),
     status |-> "pending",
     before |-> [k \in 1..Len(log) |-> log[k].status]]

\* handlePriceUpdate u runs its loop from index `from` to its next await
\* or to its end, the clock at `at`; rest are the other calls in flight,
\* log the calls so far.  For the alert the loop stops at, triggerAlert
\* runs to its fetch and reads the clock once more for triggeredAt.
RunLoop(u, from, triggered, rest, log, at, steps) ==
    LET next == NextToTrigger(u.symbolAlerts, from, u.price, u.previousPrice,
                              triggered, at, steps)
        triggeredAt == IF next.i # 0 /\ next.steps # <<>>
                       THEN next.at + Head(next.steps) ELSE next.at
    IN  /\ triggeredAt <= MaxNow
        /\ now' = triggeredAt
        /\ IF next.i = 0
           THEN /\ priceUpdates' = rest
                /\ alertLog' = log
           ELSE /\ priceUpdates' =
                       Append(rest,
                              [u EXCEPT !.i = next.i, !.call = Len(log) + 1])
                /\ alertLog' =
                       Append(log, AlertCall(u, next.i, log, triggeredAt))

\* handlePriceUpdate up to its first await, the one of the fetch inside
\* triggerAlert.
handlePriceUpdate(symbol, price, steps) ==
    LET symbolAlerts == IF symbol \in DOMAIN groupedAlerts
                        THEN groupedAlerts[symbol] ELSE <<>>
        previousPrice == IF symbol \in DOMAIN lastPrices
                         THEN <<lastPrices[symbol]>> ELSE <<>>
    IN  IF Len(symbolAlerts) = 0
        THEN UNCHANGED <<now, lastPrices, priceUpdates, alertLog>>
        ELSE /\ lastPrices' = MapSet(lastPrices, symbol, price)
             /\ RunLoop([symbol |-> symbol, price |-> price,
                         previousPrice |-> previousPrice,
                         symbolAlerts |-> symbolAlerts, i |-> 0, call |-> 0],
                        1, triggeredAlerts, priceUpdates, alertLog, now,
                        steps)

\* ws.on('message') of the alert worker: parseTickerMessage, then
\* handlePriceUpdate up to its first await.  The clock is read by the
\* loop's cooldown tests and by triggerAlert, in that order.
TickerWsMessage(m, steps) ==
    /\ ws.state \in {"open", "closing"}
    /\ UNCHANGED <<volumeVars, groupedAlerts, triggeredAlerts, dropped>>
    /\ LET parsed == parseTickerMessage(m)
       IN  IF parsed.ok
           THEN /\ accepted' = MapSet(accepted, parsed.symbol, parsed.price)
                /\ handlePriceUpdate(parsed.symbol, parsed.price, steps)
           ELSE UNCHANGED <<now, lastPrices, priceUpdates, alertLog,
                            accepted>>

\* The triggerAlert call of a handlePriceUpdate returns 2xx: the rule's
\* trigger time is read from the clock and recorded, and the loop goes on
\* to its next triggerAlert, which reads the clock for its triggeredAt.
TriggerOk(k, steps) ==
    /\ k \in 1..Len(priceUpdates)
    /\ LET u == priceUpdates[k]
           at == IF steps = <<>> THEN now ELSE now + Head(steps)
           rest == IF steps = <<>> THEN steps ELSE Tail(steps)
           triggered == MapSet(triggeredAlerts,
                               resolveAlertId(u.symbolAlerts[u.i]), at)
       IN  /\ triggeredAlerts' = triggered
           /\ RunLoop(u, u.i + 1, triggered, RemoveAt(priceUpdates, k),
                      [alertLog EXCEPT ![u.call].status = "ok"], at, rest)
    /\ UNCHANGED <<volumeVars, groupedAlerts, lastPrices, obsVars>>

\* The triggerAlert call throws (network error or non-2xx): the catch block
\* logs, and the loop goes on to its next triggerAlert, which reads the
\* clock for its triggeredAt.
TriggerFail(k, steps) ==
    /\ k \in 1..Len(priceUpdates)
    /\ LET u == priceUpdates[k]
       IN  RunLoop(u, u.i + 1, triggeredAlerts, RemoveAt(priceUpdates, k),
                   [alertLog EXCEPT ![u.call].status = "failed"], now, steps)
    /\ UNCHANGED <<volumeVars, groupedAlerts, triggeredAlerts, lastPrices,
                   obsVars>>

\* Array.from(groupedAlerts.keys()): the symbols of the alerts in the order
\* of their first alert.
RECURSIVE derivedSymbols(_)
derivedSymbols(alerts) ==
    IF alerts = <<>> THEN <<>>
    ELSE LET n == Len(alerts)
             keys == derivedSymbols(SubSeq(alerts, 1, n - 1))
             symbol == resolveSymbol(alerts[n])
         IN  IF symbol = "" \/ symbol \in Range(keys) THEN keys
             ELSE Append(keys, symbol)

\* The timer of scheduleAlertRefresh fires: loadAlerts runs to its await of
\* the fetch.  pc is "alerts" while the alert worker runs.
AlertRefreshTick ==
    /\ pc = "alerts"
    /\ refreshTimers > 0
    /\ refreshTimers' = refreshTimers - 1
    /\ refreshFetches' = refreshFetches + 1
    /\ UNCHANGED <<tradeVars, connVars, pc, explicitSymbols, trackedSymbols,
                   uncaught, closedByUser, alertVars, settingsVars, obsVars>>

\* A refresh that keeps the trigger times.
KeptOnRefresh(triggered) == triggered

\* triggeredAlerts.clear()
ClearedOnRefresh(triggered) == EmptyMap

\* The alerts fetch returns a list: the rest of loadAlerts' try block, then
\* scheduleAlertRefresh.
LoadAlertsOk(alerts) ==
    /\ pc = "alerts"
    /\ refreshFetches > 0
    /\ groupedAlerts' = groupAlertsBySymbol(alerts)
    /\ triggeredAlerts' = ClearedOnRefresh(triggeredAlerts)
    /\ LET derived == derivedSymbols(alerts)
       IN  IF ~explicitSymbols /\ ~symbolsEqual(derived, trackedSymbols)
           THEN /\ trackedSymbols' = derived
                /\ SetConn(reconnect(Conn, derived, TRUE))
           ELSE UNCHANGED <<trackedSymbols, connVars>>
    /\ refreshFetches' = refreshFetches - 1
    /\ refreshTimers' = refreshTimers + 1
    /\ UNCHANGED <<tradeVars, pc, explicitSymbols, uncaught, closedByUser,
                   lastPrices, priceUpdates, alertLog, settingsVars, obsVars>>

\* The alerts fetch fails or is answered with a status that is not 2xx:
\* loadAlerts' catch block logs, then scheduleAlertRefresh.
LoadAlertsFail ==
    /\ pc = "alerts"
    /\ refreshFetches > 0
    /\ refreshFetches' = refreshFetches - 1
    /\ refreshTimers' = refreshTimers + 1
    /\ UNCHANGED <<tradeVars, connVars, pc, explicitSymbols, trackedSymbols,
                   uncaught, closedByUser, alertVars, settingsVars, obsVars>>

\* The alerts the endpoint serves: a rule with a cooldown, a rule without
\* one that fires on a downward crossing, an alert without an id.
Alert(id, symbol, operator, targetPrice, cooldownMs) ==
    [id |-> id, _id |-> "", uuid |-> "", symbol |-> symbol, asset |-> "",
     operator |-> operator, direction |-> "", comparison |-> "",
     condition |-> "", type |-> "",
     targetPrice |-> targetPrice, price |-> <<>>, threshold |-> <<>>,
     triggerPrice |-> <<>>, value |-> <<>>,
     cooldownMs |-> cooldownMs, cooldownSeconds |-> <<>>, cooldown |-> <<>>]

AlertLists ==
    {<<Alert("r1", "a", "above", <<2>>, <<AlertCooldownMs>>)>>,
     <<Alert("r1", "a", "above", <<2>>, <<AlertCooldownMs>>),
       Alert("r2", "a", "crosses_below", <<2>>, <<>>),
       Alert("", "b", "below", <<2>>, <<>>)>>}

TickerMessages ==
    {TickerMessage(s, c) : s \in Symbols, c \in {<<>>, <<1>>, <<3>>}}

----------------------------------------------------------------------------
(* Specifications.                                                         *)

\* No settings refresh has been asked for, no message has arrived.
SettingsIdle ==
    /\ lastSettingsUpdatedAt = ""
    /\ settingsFetches = 0
    /\ settingsLog = <<>>
    /\ dropped = 0
    /\ accepted = EmptyMap

\* The alert worker before its first loadAlerts.
AlertIdle ==
    /\ groupedAlerts = EmptyMap
    /\ triggeredAlerts = EmptyMap
    /\ lastPrices = EmptyMap
    /\ priceUpdates = <<>>
    /\ alertLog = <<>>

ConnInit ==
    /\ ws = NoSocket
    /\ others = <<>>
    /\ reconnectAttempts = 0
    /\ reconnectTimers = <<>>
    /\ closedByUser = FALSE

TradeInit ==
    /\ now = StartNow
    /\ volumeWindowMs \in WindowChoices
    /\ notificationCooldownMs \in CooldownChoices
    /\ volumeThresholdUsd \in ThresholdChoices
    /\ windows = EmptyMap
    /\ lastBroadcastAt = EmptyMap
    /\ dispatchLog = <<>>
    /\ tradeLog = <<>>

\* startWorker is called.
Init ==
    /\ TradeInit
    /\ ConnInit
    /\ pc = "start"
    /\ trackedSymbols \in EnvSymbolLists
    /\ explicitSymbols = (Len(trackedSymbols) > 0)
    /\ refreshTimers = 0
    /\ refreshFetches = 0
    /\ uncaught = FALSE
    /\ AlertIdle
    /\ SettingsIdle

\* The worker is running on an open connection for all symbols.
RunningConn ==
    /\ ws = [NewWebSocket(buildBinanceWsUrl(SymbolOrder))
                EXCEPT !.state = "open", !.opened = TRUE]
    /\ others = <<>>
    /\ reconnectAttempts = 0
    /\ reconnectTimers = <<>>
    /\ closedByUser = FALSE
    /\ pc = "running"
    /\ trackedSymbols = SymbolOrder
    /\ explicitSymbols = FALSE
    /\ refreshTimers = 1
    /\ refreshFetches = 0
    /\ uncaught = FALSE

RunningInit == TradeInit /\ RunningConn /\ AlertIdle /\ SettingsIdle

\* The worker is running with the default window, threshold and cooldown.
E2EInit ==
    /\ now = StartNow
    /\ volumeWindowMs = DEFAULT_VOLUME_WINDOW_MS
    /\ notificationCooldownMs = DEFAULT_NOTIFICATION_COOLDOWN_MS
    /\ volumeThresholdUsd = DEFAULT_VOLUME_THRESHOLD_USD
    /\ windows = EmptyMap
    /\ lastBroadcastAt = EmptyMap
    /\ dispatchLog = <<>>
    /\ tradeLog = <<>>
    /\ RunningConn
    /\ AlertIdle
    /\ SettingsIdle

ConnNext ==
    \/ StartWorker
    \/ \E symbols \in FetchedLists : StartFetchOk(symbols)
    \/ StartFetchFail
    \/ RefreshTick
    \/ \E symbols \in FetchedLists : RefreshOk(symbols)
    \/ RefreshFail
    \/ \E p \in Positions : WsOpen(p)
    \/ \E p \in Positions : WsError(p)
    \/ \E p \in Positions : WsClose(p)
    \/ \E i \in 1..Len(reconnectTimers) : ReconnectTimer(i)
    \/ handleExit

TradeNext ==
    \/ /\ Len(tradeLog) < MaxTrades
       /\ \E p \in Positions, m \in UnstampedTrades : WsMessage(p, m, 0)
    \/ \E i \in 1..Len(dispatchLog) : BroadcastOk(i)
    \/ \E i \in 1..Len(dispatchLog) : BroadcastFail(i)
    \/ Tick

\* Trades carrying the exchange's trade time.
WindowNext ==
    \/ /\ Len(tradeLog) < MaxTrades
       /\ \E p \in Positions, m \in StampedTrades, d \in ClockSteps :
              WsMessage(p, m, d)
    \/ Tick

\* The end-to-end scenario: trades of 150000 USD, minute by minute.
E2ENext ==
    \/ /\ Len(tradeLog) < E2ETrades
       /\ \E m \in ScenarioTrades : WsMessage(0, m, 0)
    \/ \E i \in 1..Len(dispatchLog) : BroadcastOk(i)
    \/ \E m \in ScenarioMinutes : TickTo(m)

\* The connection and the symbol set, with no trades.
SpecConn == Init /\ [][ConnNext]_vars

\* The same with a symbols endpoint that always answers.
ReliableNext ==
    \/ StartWorker
    \/ \E symbols \in FetchedLists : StartFetchOk(symbols)
    \/ RefreshTick
    \/ \E symbols \in FetchedLists : RefreshOk(symbols)
    \/ \E p \in Positions : WsOpen(p)
    \/ \E p \in Positions : WsError(p)
    \/ \E p \in Positions : WsClose(p)
    \/ \E i \in 1..Len(reconnectTimers) : ReconnectTimer(i)
    \/ handleExit

\* What the event loop guarantees: a pending timer fires, a handle that was
\* closed, terminated or hit an error emits 'close', and startWorker and the
\* fetches of an endpoint that always answers complete.
PendingClose ==
    \E p \in Positions :
        SockAt(p).state \in {"closing", "failed"} /\ WsClose(p)

ConnFairness ==
    /\ WF_vars(\E i \in 1..Len(reconnectTimers) : ReconnectTimer(i))
    /\ WF_vars(PendingClose)
    /\ WF_vars(StartWorker)
    /\ WF_vars(\E symbols \in FetchedLists : StartFetchOk(symbols))
    /\ WF_vars(RefreshTick)
    /\ WF_vars(\E symbols \in FetchedLists : RefreshOk(symbols))

SpecConnFair == Init /\ [][ReliableNext]_vars /\ ConnFairness

\* Trades on an established connection.
SpecTrade == RunningInit /\ [][TradeNext]_vars

\* The default configuration, one symbol, trades of 150000 USD.
SpecE2E == E2EInit /\ [][E2ENext]_vars

\* Stamped trades on an established connection.
SpecWindow == RunningInit /\ [][WindowNext]_vars

\* A trade of a stream the handle at position p subscribed to.
StreamTrades(p) ==
    {m \in UnstampedTrades : m.s \in Range(SockAt(p).streams)}

\* The alert worker after startWorker has returned: the alerts are loaded,
\* the refresh timer is armed and the ticker socket for their symbols is
\* open.
AlertRunningWith(lists) ==
    /\ TradeInit
    /\ SettingsIdle
    /\ \E alerts \in lists :
           /\ groupedAlerts = groupAlertsBySymbol(alerts)
           /\ trackedSymbols = derivedSymbols(alerts)
    /\ triggeredAlerts = EmptyMap
    /\ lastPrices = EmptyMap
    /\ priceUpdates = <<>>
    /\ alertLog = <<>>
    /\ ws = [NewWebSocket(buildBinanceWsUrl(trackedSymbols))
                EXCEPT !.state = "open", !.opened = TRUE]
    /\ others = <<>>
    /\ reconnectAttempts = 0
    /\ reconnectTimers = <<>>
    /\ closedByUser = FALSE
    /\ pc = "alerts"
    /\ explicitSymbols = FALSE
    /\ refreshTimers = 1
    /\ refreshFetches = 0
    /\ uncaught = FALSE

\* Rules on one symbol with threshold 2 and no cooldown: one per operator,
\* one with an operator the worker does not know, one without an operator,
\* and a rule without a threshold followed by an ordinary one.
RuleLists ==
    {<<Alert("up", "a", "crosses_above", <<2>>, <<>>)>>,
     <<Alert("down", "a", "crosses_below", <<2>>, <<>>)>>,
     <<Alert("ge", "a", "gte", <<2>>, <<0>>)>>,
     <<Alert("le", "a", "lte", <<2>>, <<>>)>>,
     <<Alert("odd", "a", "sideways", <<2>>, <<>>)>>,
     <<Alert("bare", "a", "", <<2>>, <<>>)>>,
     <<Alert("void", "a", "lte", <<>>, <<>>),
       Alert("ge", "a", "gte", <<2>>, <<0>>)>>}

\* What the alerts endpoint serves at a refresh: the rule that had no
\* threshold now has one.
RedefinedLists ==
    {<<Alert("void", "a", "lte", <<2>>, <<>>),
       Alert("ge", "a", "gte", <<2>>, <<0>>)>>}

RuleCalls == 2

\* The messages of a feed for the streams the ticker socket subscribed to.
StreamTickers(feed) == {m \in feed : m.s \in Range(ws.streams)}

\* Ticker messages below, at and above the threshold of the rules.
RuleMessages ==
    {TickerMessage(s, c) : s \in Symbols, c \in {<<>>, <<1>>, <<2>>, <<3>>}}

\* Price updates evaluated against the rules; every trigger call is
\* answered 2xx.
RulesNext ==
    \/ /\ Len(alertLog) < RuleCalls
       /\ \E m \in StreamTickers(RuleMessages) : TickerWsMessage(m, <<>>)
    \/ \E k \in 1..Len(priceUpdates) : TriggerOk(k, <<>>)
    \/ AlertRefreshTick
    \/ \E alerts \in RedefinedLists : LoadAlertsOk(alerts)
    \/ LoadAlertsFail
    \/ AlertHandleExit

SpecRules == AlertRunningWith(RuleLists) /\ [][RulesNext]_vars

\* VOLUME_NOTIFICATION_COOLDOWN_MS=0: the cooldown duration configured as 0.
ZeroCooldownEnv == <<0>>

\* main: Number(assertEnv('VOLUME_NOTIFICATION_COOLDOWN_MS', true)) ||
\* DEFAULT_NOTIFICATION_COOLDOWN_MS.  env is <<>> when the variable is not
\* set, NotNumeric when it is not a number, <<n>> when it is the number n.
NotificationCooldownFromEnv(env) ==
    IF env \in {<<>>, NotNumeric, <<0>>} THEN DEFAULT_NOTIFICATION_COOLDOWN_MS
    ELSE env[1]

\* The volume worker started by main with VOLUME_NOTIFICATION_COOLDOWN_MS
\* set to 0.
NoCooldownInit ==
    /\ now = StartNow
    /\ volumeWindowMs \in WindowChoices
    /\ notificationCooldownMs = NotificationCooldownFromEnv(ZeroCooldownEnv)
    /\ volumeThresholdUsd \in ThresholdChoices
    /\ windows = EmptyMap
    /\ lastBroadcastAt = EmptyMap
    /\ dispatchLog = <<>>
    /\ tradeLog = <<>>
    /\ RunningConn
    /\ AlertIdle
    /\ SettingsIdle

NoCooldownTrades == 2

NoCooldownCalls == 2

\* The rules whose cooldownMs is 0.
ZeroCooldownLists ==
    {alerts \in RuleLists : \A i \in 1..Len(alerts) : alerts[i].cooldownMs = <<0>>}

\* Either worker with a cooldown of 0 asked for: trades of the volume
\* worker, price updates of the alert worker.
NoCooldownNext ==
    \/ /\ pc = "running"
       /\ Len(tradeLog) < NoCooldownTrades
       /\ \E m \in UnstampedTrades : WsMessage(0, m, 0)
    \/ \E i \in 1..Len(dispatchLog) : BroadcastOk(i)
    \/ \E i \in 1..Len(dispatchLog) : BroadcastFail(i)
    \/ /\ pc = "alerts"
       /\ Len(alertLog) < NoCooldownCalls
       /\ \E m \in StreamTickers(RuleMessages) : TickerWsMessage(m, <<>>)
    \/ \E k \in 1..Len(priceUpdates) : TriggerOk(k, <<>>)
    \/ \E k \in 1..Len(priceUpdates) : TriggerFail(k, <<>>)
    \/ Tick

SpecNoCooldown ==
    (NoCooldownInit \/ AlertRunningWith(ZeroCooldownLists))
        /\ [][NoCooldownNext]_vars

\* A rule on the first symbol that holds at 2 and above, with the three
\* cooldown fields as given.
CooldownAlert(cooldownMs, cooldownSeconds, cooldown) ==
    [Alert("c", SymbolOrder[1], "gte", <<2>>, cooldownMs)
        EXCEPT !.cooldownSeconds = cooldownSeconds, !.cooldown = cooldown]

\* One rule per combination of the cooldown fields: absent, 0, or a number.
CooldownLists ==
    {<<CooldownAlert(ms, seconds, cooldown)>> :
        ms \in {<<>>, <<0>>, <<2>>}, seconds \in {<<>>, <<2>>},
        cooldown \in {<<>>, <<3>>}}

\* Two rules with a cooldown on the first symbol: one that holds when the
\* price crosses 2 upwards, one that holds at 2 and above.
PairedLists ==
    {<<Alert("up", SymbolOrder[1], "crosses_above", <<2>>,
             <<AlertCooldownMs>>),
       Alert("over", SymbolOrder[1], "above", <<2>>, <<AlertCooldownMs>>)>>}

CooldownCalls == 2

\* The readings of one step with two rules that have a cooldown: the
\* trigger time of the first, the cooldown test of the second, the
\* triggeredAt of the second.
CooldownReadings == 3

\* Price updates evaluated against rules with cooldown fields, the clock
\* moving between the readings of a step.
CooldownNext ==
    \/ /\ Len(alertLog) < CooldownCalls
       /\ \E m \in StreamTickers(RuleMessages),
             steps \in [1..CooldownReadings -> ClockSteps] :
              TickerWsMessage(m, steps)
    \/ \E k \in 1..Len(priceUpdates),
          steps \in [1..CooldownReadings -> ClockSteps] :
          TriggerOk(k, steps)
    \/ \E k \in 1..Len(priceUpdates),
          steps \in [1..CooldownReadings -> ClockSteps] :
          TriggerFail(k, steps)
    \/ Tick
    \/ AlertHandleExit

SpecCooldown ==
    AlertRunningWith(CooldownLists \cup PairedLists) /\ [][CooldownNext]_vars

\* The alert worker started with a list of symbols (runPriceAlertWorker's
\* `symbols`): the ticker socket is open on all of them, whatever the
\* alerts; the alerts loaded are one rule with a cooldown on the first.
PinnedAlertInit ==
    /\ now = StartNow
    /\ volumeWindowMs = DEFAULT_VOLUME_WINDOW_MS
    /\ notificationCooldownMs = DEFAULT_NOTIFICATION_COOLDOWN_MS
    /\ volumeThresholdUsd = DEFAULT_VOLUME_THRESHOLD_USD
    /\ windows = EmptyMap
    /\ lastBroadcastAt = EmptyMap
    /\ dispatchLog = <<>>
    /\ tradeLog = <<>>
    /\ SettingsIdle
    /\ groupedAlerts = groupAlertsBySymbol(
           <<Alert("r1", "a", "above", <<2>>, <<AlertCooldownMs>>)>>)
    /\ trackedSymbols = SymbolOrder
    /\ triggeredAlerts = EmptyMap
    /\ lastPrices = EmptyMap
    /\ priceUpdates = <<>>
    /\ alertLog = <<>>
    /\ ws = [NewWebSocket(buildBinanceWsUrl(SymbolOrder))
                EXCEPT !.state = "open", !.opened = TRUE]
    /\ others = <<>>
    /\ reconnectAttempts = 0
    /\ reconnectTimers = <<>>
    /\ closedByUser = FALSE
    /\ pc = "alerts"
    /\ explicitSymbols = TRUE
    /\ refreshTimers = 1
    /\ refreshFetches = 0
    /\ uncaught = FALSE

\* What the alerts endpoint serves at a refresh: the same rule, alone or
\* with a new rule on the second symbol.
RefreshedLists ==
    {<<Alert("r1", "a", "above", <<2>>, <<AlertCooldownMs>>)>>,
     <<Alert("r1", "a", "above", <<2>>, <<AlertCooldownMs>>),
       Alert("down", "b", "crosses_below", <<2>>, <<>>)>>}

RefreshCalls == 2

\* Price updates of both symbols between alert refreshes; every trigger
\* call is answered 2xx.  The clock is followed until the last dispatch has
\* started.
AlertRefreshNext ==
    \/ /\ Len(alertLog) < RefreshCalls
       /\ \E m \in StreamTickers(TickerMessages) : TickerWsMessage(m, <<>>)
    \/ \E k \in 1..Len(priceUpdates) : TriggerOk(k, <<>>)
    \/ AlertRefreshTick
    \/ LoadAlertsFail
    \/ \E alerts \in RefreshedLists : LoadAlertsOk(alerts)
    \/ /\ Len(alertLog) < RefreshCalls
       /\ Tick
    \/ AlertHandleExit

SpecAlertRefresh == PinnedAlertInit /\ [][AlertRefreshNext]_vars

\* What the trade socket can deliver: trades, trades at a negative price,
\* payloads without symbol, price or quantity.  A payload that is not JSON
\* is the one without any of them.
RawTrades ==
    {TradeMessage(s, T, <<>>, p, q) :
        s \in {""} \cup Symbols, T \in {<<>>, NotNumeric, Infinite},
        p \in {<<>>, <<-1>>, <<2>>}, q \in {<<>>, <<1>>}}

MessageTrades == 2

MaxDropped == 2

\* Whatever arrives on an established connection.
MessagesNext ==
    \/ /\ Len(tradeLog) < MessageTrades
       /\ dropped < MaxDropped
       /\ \E m \in RawTrades : WsMessage(0, m, 0)
    \/ \E i \in 1..Len(dispatchLog) : BroadcastOk(i)
    \/ \E i \in 1..Len(dispatchLog) : BroadcastFail(i)

SpecMessages == RunningInit /\ [][MessagesNext]_vars

FetchTrades == 1

FetchSettingsCalls == 1

\* The answer of the settings endpoint while the other fetches are
\* explored.
FetchPayloads == {p \in SettingsPayloads :
                     p.spotVolumeThreshold = <<3>> /\ p.updatedAt = "t1"}

\* Either worker with its fetches, each of which may fail: the volume
\* worker from its start, the alert worker once it runs.
FetchInit == Init \/ AlertRunningWith(AlertLists)

FetchNext ==
    \/ StartWorker
    \/ \E symbols \in FetchedLists : StartFetchOk(symbols)
    \/ StartFetchFail
    \/ pc # "alerts" /\ RefreshTick
    \/ pc # "alerts" /\ \E symbols \in FetchedLists : RefreshOk(symbols)
    \/ pc # "alerts" /\ RefreshFail
    \/ \E p \in Positions : WsOpen(p)
    \/ \E p \in Positions : WsClose(p)
    \/ \E i \in 1..Len(reconnectTimers) : ReconnectTimer(i)
    \/ /\ pc # "alerts"
       /\ Len(tradeLog) < FetchTrades
       /\ \E p \in Positions : \E m \in StreamTrades(p) : WsMessage(p, m, 0)
    \/ /\ Len(settingsLog) + settingsFetches < FetchSettingsCalls
       /\ RefreshSettings
    \/ \E payload \in FetchPayloads : SettingsOk(payload)
    \/ SettingsFail
    \/ AlertRefreshTick
    \/ \E alerts \in AlertLists \cup {<<>>} : LoadAlertsOk(alerts)
    \/ LoadAlertsFail
    \/ handleExit
    \/ AlertHandleExit

SpecFetch == FetchInit /\ [][FetchNext]_vars

ReconcileTrades == 2

\* Reconciliation while trades arrive: every fetch is answered and every
\* handshake succeeds.
ReconcileNext ==
    \/ StartWorker
    \/ \E symbols \in FetchedLists : StartFetchOk(symbols)
    \/ RefreshTick
    \/ \E symbols \in FetchedLists : RefreshOk(symbols)
    \/ \E p \in Positions : WsOpen(p)
    \/ \E p \in Positions : WsClose(p)
    \/ \E i \in 1..Len(reconnectTimers) : ReconnectTimer(i)
    \/ /\ Len(tradeLog) < ReconcileTrades
       /\ \E p \in Positions : \E m \in StreamTrades(p) : WsMessage(p, m, 0)

SpecReconcile == Init /\ [][ReconcileNext]_vars

SettingsTrades == 2

\* Trades on an established connection while the settings are reloaded.
SettingsNext ==
    \/ /\ Len(tradeLog) < SettingsTrades
       /\ \E m \in UnstampedTrades : WsMessage(0, m, 0)
    \/ RefreshSettings
    \/ \E payload \in SettingsPayloads : SettingsOk(payload)
    \/ SettingsFail

SpecSettings == RunningInit /\ [][SettingsNext]_vars

\* Ticker messages of the alert worker, the clock moving between the
\* readings of a step.
AlertNext ==
    \/ /\ Len(alertLog) < MaxAlertCalls
       /\ \E m \in StreamTickers(TickerMessages),
             steps \in [1..MaxReadings -> ClockSteps] :
              TickerWsMessage(m, steps)
    \/ \E k \in 1..Len(priceUpdates),
          steps \in [1..MaxReadings -> ClockSteps] :
          TriggerOk(k, steps)
    \/ \E k \in 1..Len(priceUpdates),
          steps \in [1..MaxReadings -> ClockSteps] :
          TriggerFail(k, steps)
    \/ Tick
    \/ AlertHandleExit

SpecAlert == AlertRunningWith(AlertLists) /\ [][AlertNext]_vars

----------------------------------------------------------------------------
(* Claims about the cooldown of the volume worker (SpecTrade).             *)

DispatchIds == 1..Len(dispatchLog)

TradeIds == 1..Len(tradeLog)

\* The trade's sum reached the threshold: handleTrade went on to the
\* cooldown check.
Qualifying(k) == tradeLog[k].sum >= volumeThresholdUsd

\* The decision time of the latest broadcast started for the symbol.
LatestDispatchAt(symbol) ==
    LET ids == {i \in DispatchIds : dispatchLog[i].symbol = symbol}
    IN  dispatchLog[CHOOSE i \in ids : \A j \in ids : j <= i].at

\* C1: any two broadcasts started for one symbol have decision times at
\* least notificationCooldownMs apart.
C1_AtMostOnePerCooldown ==
    \A i, j \in DispatchIds :
        (i < j /\ dispatchLog[i].symbol = dispatchLog[j].symbol)
            => dispatchLog[j].at - dispatchLog[i].at >= notificationCooldownMs

\* Two broadcasts were started for one symbol, and between them a
\* qualifying trade of that symbol was suppressed.
C1_Witness ==
    \E i, j \in DispatchIds : \E k \in TradeIds :
        /\ i < j
        /\ dispatchLog[i].symbol = dispatchLog[j].symbol
        /\ tradeLog[k].symbol = dispatchLog[i].symbol
        /\ Qualifying(k) /\ ~tradeLog[k].fired
        /\ Len(tradeLog[k].before) = i

\* C2 as stated: whenever a broadcast for s is in flight, lastBroadcastAt[s]
\* holds the decision time of that very broadcast.
C2_HoldsOwnDecisionTime ==
    \A i \in DispatchIds :
        dispatchLog[i].status = "pending"
            => /\ dispatchLog[i].symbol \in DOMAIN lastBroadcastAt
               /\ lastBroadcastAt[dispatchLog[i].symbol] = dispatchLog[i].at

\* A broadcast of the symbol, started before trade k, was in flight and
\* less than the cooldown old when trade k was handled.
PendingInCooldown(k) ==
    \E i \in 1..Len(tradeLog[k].before) :
        /\ tradeLog[k].before[i].symbol = tradeLog[k].symbol
        /\ tradeLog[k].before[i].status = "pending"
        /\ tradeLog[k].at - tradeLog[k].before[i].at < notificationCooldownMs

\* C2, amended: the record is written in the step that starts the
\* broadcast.  While a broadcast for s is in flight lastBroadcastAt[s] holds
\* the decision time of the latest broadcast started for s, which is that
\* broadcast's or a later one's; and a trade of s handled while a broadcast
\* for s is in flight and younger than the cooldown starts no broadcast.
C2_MarkedAtDecision ==
    /\ \A i \in DispatchIds :
          dispatchLog[i].status = "pending"
              => /\ dispatchLog[i].symbol \in DOMAIN lastBroadcastAt
                 /\ lastBroadcastAt[dispatchLog[i].symbol]
                       = LatestDispatchAt(dispatchLog[i].symbol)
                 /\ lastBroadcastAt[dispatchLog[i].symbol] >= dispatchLog[i].at
    /\ \A k \in TradeIds : PendingInCooldown(k) => ~tradeLog[k].fired

\* A qualifying trade was handled while the broadcast of an earlier trade
\* of its symbol was still in flight, and was suppressed.
C2_Witness ==
    \E k \in TradeIds :
        Qualifying(k) /\ PendingInCooldown(k) /\ ~tradeLog[k].fired

\* C3: a failed broadcast leaves the cooldown in force: lastBroadcastAt[s]
\* still holds the decision time (or that of a later broadcast, started
\* after the cooldown), no other broadcast for s is started within the
\* cooldown of the failed one, and a trade handled after the failure within
\* the cooldown starts none.
C3_FailureKeepsCooldown ==
    /\ \A i \in DispatchIds :
          dispatchLog[i].status = "failed"
              => /\ dispatchLog[i].symbol \in DOMAIN lastBroadcastAt
                 /\ lastBroadcastAt[dispatchLog[i].symbol]
                       = LatestDispatchAt(dispatchLog[i].symbol)
                 /\ \A j \in DispatchIds :
                       (j > i /\ dispatchLog[j].symbol = dispatchLog[i].symbol)
                           => dispatchLog[j].at - dispatchLog[i].at
                                  >= notificationCooldownMs
    /\ \A k \in TradeIds :
          (\E i \in 1..Len(tradeLog[k].before) :
              /\ tradeLog[k].before[i].symbol = tradeLog[k].symbol
              /\ tradeLog[k].before[i].status = "failed"
              /\ tradeLog[k].at - tradeLog[k].before[i].at
                    < notificationCooldownMs)
            => ~tradeLog[k].fired

\* A broadcast had failed, and a qualifying trade of its symbol handled
\* after the failure, within the cooldown, was suppressed.
C3_Witness ==
    \E k \in TradeIds : \E i \in 1..Len(tradeLog[k].before) :
        /\ tradeLog[k].before[i].symbol = tradeLog[k].symbol
        /\ tradeLog[k].before[i].status = "failed"
        /\ tradeLog[k].at - tradeLog[k].before[i].at < notificationCooldownMs
        /\ Qualifying(k)
        /\ ~tradeLog[k].fired

\* The qualifying trades of a symbol, in the order handled.
QualifyingOf(symbol) ==
    {k \in TradeIds : tradeLog[k].symbol = symbol /\ Qualifying(k)}

\* i and j are the first and the second qualifying trade of their symbol.
FirstPair(i, j) ==
    /\ i < j
    /\ tradeLog[i].symbol = tradeLog[j].symbol
    /\ i \in QualifyingOf(tradeLog[i].symbol)
    /\ j \in QualifyingOf(tradeLog[i].symbol)
    /\ \A k \in QualifyingOf(tradeLog[i].symbol) : k = i \/ k >= j

\* C6: the first two cooldown checks of a key, at t1 <= t2: the first
\* passes; the second passes exactly when t2 - t1 >= cooldown, and then the
\* record holds t2, otherwise it still holds t1.
C6_PairProperty ==
    \A i, j \in TradeIds :
        FirstPair(i, j)
            => /\ tradeLog[i].fired
               /\ tradeLog[j].last = tradeLog[i].at
               /\ tradeLog[j].fired
                     <=> (tradeLog[j].at - tradeLog[i].at
                             >= notificationCooldownMs)
               /\ (\A k \in QualifyingOf(tradeLog[i].symbol) : k <= j)
                     => lastBroadcastAt[tradeLog[i].symbol]
                           = IF tradeLog[j].fired THEN tradeLog[j].at
                             ELSE tradeLog[i].at

\* The second check came exactly one cooldown after the first, and passed.
C6_Witness ==
    \E i, j \in TradeIds :
        /\ FirstPair(i, j)
        /\ tradeLog[j].at - tradeLog[i].at = notificationCooldownMs
        /\ tradeLog[j].fired
        /\ lastBroadcastAt[tradeLog[i].symbol] = tradeLog[j].at

----------------------------------------------------------------------------
(* Claims about the rolling window (SpecWindow).                           *)

\* The trades of trade k's symbol handled up to and including trade k.
UpTo(k) == {j \in 1..k : tradeLog[j].symbol = tradeLog[k].symbol}

\* Those trades carried non-decreasing timestamps.
MonotoneUpTo(k) ==
    \A i, j \in UpTo(k) : i < j => tradeLog[i].ts <= tradeLog[j].ts

RECURSIVE SumOfTrades(_)
SumOfTrades(ids) ==
    IF ids = {} THEN 0
    ELSE LET j == CHOOSE x \in ids : TRUE
         IN  tradeLog[j].value + SumOfTrades(ids \ {j})

\* C7 as stated: with timestamps in non-decreasing order, the sum
\* handleTrade reads is the sum of the entries stamped within
\* [now - windowDuration, now].
C7_SumOfTrailingWindow ==
    \A k \in TradeIds :
        MonotoneUpTo(k)
            => tradeLog[k].sum =
                  SumOfTrades({j \in UpTo(k) :
                      /\ tradeLog[j].ts >= tradeLog[k].at - volumeWindowMs
                      /\ tradeLog[j].ts <= tradeLog[k].at})

\* C7, amended: with timestamps in non-decreasing order, the sum
\* handleTrade reads is the sum of the entries stamped no earlier than
\* now - windowDuration, entries stamped later than now included.
C7_SumFromCutoff ==
    \A k \in TradeIds :
        MonotoneUpTo(k)
            => tradeLog[k].sum =
                  SumOfTrades({j \in UpTo(k) :
                      tradeLog[j].ts >= tradeLog[k].at - volumeWindowMs})

\* A trade in timestamp order was handled after an older entry of its
\* symbol had left the window, with another entry retained and one entry
\* stamped ahead of the clock.
C7_Witness ==
    \E k \in TradeIds :
        /\ MonotoneUpTo(k)
        /\ \E i \in UpTo(k) : tradeLog[i].ts < tradeLog[k].at - volumeWindowMs
        /\ \E j \in UpTo(k) :
              j < k /\ tradeLog[j].ts >= tradeLog[k].at - volumeWindowMs
        /\ \E j \in UpTo(k) : tradeLog[j].ts > tradeLog[k].at

----------------------------------------------------------------------------
(* The end-to-end scenario (SpecE2E): threshold 400000, window and         *)
(* cooldown 15 minutes, trades of 150000.                                  *)

\* The first three trades were handled within one window.
ThreeInWindow ==
    /\ Len(tradeLog) >= 3
    /\ tradeLog[3].at - tradeLog[1].at <= volumeWindowMs

\* C8: the third trade, and only it, starts a broadcast, of 450000; a
\* fourth trade one minute later starts none; a trade 16 minutes after the
\* first firing, with no firing in between and a sum still at or above the
\* threshold, starts the second broadcast.
C8_EndToEnd ==
    ThreeInWindow
        => /\ ~tradeLog[1].fired
           /\ ~tradeLog[2].fired
           /\ tradeLog[3].fired
           /\ tradeLog[3].sum = 450000
           /\ dispatchLog[1] \in
                 {[symbol |-> tradeLog[3].symbol, volumeUsd |-> 450000,
                   at |-> tradeLog[3].at, status |-> st] :
                      st \in {"pending", "ok"}}
           /\ (/\ Len(tradeLog) >= 4
               /\ tradeLog[4].at = tradeLog[3].at + MinuteMs)
                 => ~tradeLog[4].fired
           /\ \A k \in 4..Len(tradeLog) :
                 (/\ tradeLog[k].at = tradeLog[3].at + 16 * MinuteMs
                  /\ tradeLog[k].sum >= volumeThresholdUsd
                  /\ \A j \in 4..(k - 1) : ~tradeLog[j].fired)
                    => /\ tradeLog[k].fired
                       /\ Len(tradeLog[k].before) = 1

\* The whole scenario has happened: one broadcast on the third trade, none
\* on the fourth a minute later, the second 16 minutes after the first.
C8_Witness ==
    /\ ThreeInWindow
    /\ Len(tradeLog) >= 5
    /\ tradeLog[4].at = tradeLog[3].at + MinuteMs
    /\ ~tradeLog[4].fired
    /\ Len(dispatchLog) = 2
    /\ dispatchLog[2].at = dispatchLog[1].at + 16 * MinuteMs

----------------------------------------------------------------------------
(* Claims about the connection (SpecConn, SpecConnFair).                   *)

\* A connection is being made or is up.
Connected == ws.state \in {"connecting", "open"}

\* A connect() is still to come: a handle is about to emit 'close', or a
\* reconnect timer is pending.
ConnectComing ==
    \/ ws.state \in {"closing", "failed"}
    \/ \E i \in 1..Len(others) : Alive(others[i])
    \/ reconnectTimers # <<>>

\* C9: with a non-empty tracked set and no shutdown, the worker is never
\* left without a connection, a handle about to close, or a pending
\* reconnect timer.
C9_NeverStranded ==
    (pc = "running" /\ ~closedByUser /\ Len(trackedSymbols) > 0)
        => (Connected \/ ConnectComing)

\* The symbol lists the worker can come to track.
TrackedLists ==
    ({UniqueSorted(l) : l \in FetchedLists} \cup EnvSymbolLists) \ {<<>>}

\* A connection for exactly the symbols S is being made or is up.
SubscribedTo(S) == Connected /\ ws.streams = S

\* C10: once the tracked set is a non-empty S, a connection subscribed to
\* exactly S is eventually being made or up, unless the set changes again
\* or the owner stops the worker.
C10_ReopensWithNewSet ==
    \A S \in TrackedLists :
        (pc = "running" /\ trackedSymbols = S /\ ~closedByUser)
            ~> (SubscribedTo(S) \/ trackedSymbols # S \/ closedByUser)

----------------------------------------------------------------------------
(* Claims about the cooldown of the alert worker (SpecAlert).              *)

AlertCallIds == 1..Len(alertLog)

\* C4: the cooldown record of a rule is created when the trigger is
\* decided, before the dispatch completes, so that of the qualifying price
\* updates handled while the first dispatch of a rule with cooldown > 0 is
\* in flight none starts a second dispatch for that rule: no call for such
\* a rule is started while an earlier call for it is still pending.
C4_OneDispatchInFlight ==
    \A i, j \in AlertCallIds :
        (/\ i < j
         /\ alertLog[i].alertId = alertLog[j].alertId
         /\ alertLog[i].cooldown > 0)
            => alertLog[j].before[i] # "pending"

\* C5: a failed dispatch commits the rule's cooldown: no call for a rule is
\* started less than the rule's cooldown after a call for it that had
\* failed by then, the time of a call being its triggeredAt.
C5_FailureCommitsCooldown ==
    \A i, j \in AlertCallIds :
        (/\ i < j
         /\ alertLog[i].alertId = alertLog[j].alertId
         /\ alertLog[i].cooldown > 0
         /\ alertLog[j].before[i] = "failed")
            => alertLog[j].at - alertLog[i].at >= alertLog[i].cooldown

----------------------------------------------------------------------------
(* Claims about shutdown, the refresh loop and errors (SpecConn).          *)

\* A step in which `new WebSocket(url)` is executed: ws refers to a handle
\* in its handshake that it did not refer to before.
OpensConnection ==
    /\ ws'.state = "connecting"
    /\ ws.state # "connecting" \/ Len(others') > Len(others)

C12_RefreshLoopAlive ==
    (pc = "running" /\ ~explicitSymbols)
        => refreshTimers + refreshFetches > 0

\* C13: no error escapes uncaught from a timer callback or a message
\* callback.
C13_NothingEscapes == ~uncaught

----------------------------------------------------------------------------
(* Claims about the reconnect backoff (SpecConn).                          *)

\* A step in which scheduleReconnect runs: a reconnect timer is added.
SchedulesReconnect == Len(reconnectTimers') > Len(reconnectTimers)

\* The delay of the timer a step has added.
ScheduledDelay == reconnectTimers'[Len(reconnectTimers')]

\* 5000, 10000, 20000, 40000, 60000, 60000, ... for the 1st, 2nd, ...
\* consecutive failure.
ExpectedDelay(n) ==
    IF n <= 5 THEN <<5000, 10000, 20000, 40000, 60000>>[n] ELSE 60000

\* C14: the n-th consecutive failure without a reset of the counter in
\* between schedules the reconnect after 5000, 10000, 20000, 40000, 60000,
\* 60000, ... ms.
C14_BackoffSequence ==
    [][SchedulesReconnect =>
          /\ reconnectAttempts' = reconnectAttempts + 1
          /\ ScheduledDelay = ExpectedDelay(reconnectAttempts')]_vars

\* The sixth consecutive failure has been scheduled, at the cap again.
C14_Witness ==
    /\ reconnectAttempts = 6
    /\ reconnectTimers = <<60000>>
    /\ ~ws.opened

\* A step in which 'open' is emitted on the handle ws refers to.
HandshakeSucceeds == ws.state = "connecting" /\ ws'.state = "open"

\* A step in which 'close' is emitted on the handle ws refers to.
HandleCloses == ws.state \in {"open", "closing", "failed"} /\ ws'.state = "closed"

\* C15: every 'open' resets the attempt counter to zero, and the close of a
\* handle on which 'open' had been emitted schedules the reconnect after the
\* base delay of 5000 ms, whatever the counter was before the handshake.
C15_OpenResetsBackoff ==
    [][/\ HandshakeSucceeds => reconnectAttempts' = 0
       /\ (HandleCloses /\ ws.opened /\ SchedulesReconnect)
             => (reconnectAttempts' = 1 /\ ScheduledDelay = 5000)]_vars

\* A connection that had been established went down and its reconnect is
\* scheduled.
C15_Witness ==
    /\ ws.opened
    /\ ws.state = "closed"
    /\ reconnectTimers = <<5000>>
    /\ reconnectAttempts = 1

\* C16: a change of the tracked set while a handle exists closes the handle
\* with the attempt counter reset, and the reconnect that follows is
\* scheduled with the base delay: while the handle ws refers to is not
\* subscribed to the tracked set, it is going down with the counter at zero,
\* or it is down and the reconnect is pending with the base delay.
C16_ChangeReconnectsAtBase ==
    (/\ pc = "running"
     /\ ~closedByUser
     /\ Len(trackedSymbols) > 0
     /\ IsHandle(ws)
     /\ ws.streams # trackedSymbols)
        => \/ ws.state \in {"closing", "failed"} /\ reconnectAttempts = 0
           \/ ws.state = "closed" /\ reconnectTimers = <<5000>>

----------------------------------------------------------------------------
(* Claims about the handlers and the handle's life cycle (SpecConn).       *)

\* The handles on which 'close' can be emitted.
ClosablePositions ==
    {p \in Positions : SockAt(p).state \in {"open", "closing", "failed"}}

\* The connection state the 'close' handler leaves when 'close' is emitted
\* on the handle at p and the handler finds closedByUser as given.
AfterClose(p, byUser) ==
    CloseHandler(WithSock(Conn, p, [SockAt(p) EXCEPT !.state = "closed"]),
                 byUser)

\* C17: a 'close' observed with closedByUser set schedules no reconnect,
\* one observed with closedByUser unset schedules exactly one; reconnects
\* are scheduled by 'close' events only and a closed handle emits no second
\* 'close', so a handle on which an error forced termination schedules at
\* most one reconnect.  The flag is set in the callback that ends the
\* process, so the handler is also evaluated with the flag set on every
\* handle that can emit 'close' in every state reached.
C17_OneReconnectPerClose ==
    [][/\ (HandleCloses /\ closedByUser) => reconnectTimers' = reconnectTimers
       /\ \A p \in ClosablePositions :
              /\ AfterClose(p, TRUE).reconnectTimers = reconnectTimers
              /\ AfterClose(p, TRUE).reconnectAttempts = reconnectAttempts
       /\ (HandleCloses /\ ~closedByUser)
             => /\ Len(reconnectTimers') = Len(reconnectTimers) + 1
                /\ SubSeq(reconnectTimers', 1, Len(reconnectTimers))
                      = reconnectTimers
       /\ SchedulesReconnect => HandleCloses
       /\ (ws.state = "closed" /\ ws' # ws) => ws'.state = "connecting"]_vars

\* The second handle of a worker with pinned symbols was terminated in its
\* handshake and has emitted its 'close', observed with closedByUser
\* unset: one reconnect is pending, the second.
C17_Witness ==
    /\ explicitSymbols
    /\ ~closedByUser
    /\ ws.state = "closed"
    /\ ~ws.opened
    /\ reconnectTimers = <<10000>>
    /\ reconnectAttempts = 2

\* The moves of the handle ws refers to, by the state before and after:
\* Disconnected is "undefined" or "closed", Connecting "connecting",
\* Connected "open", Closing "closing", Failed "failed".  A peer's close of
\* an open connection is seen as one move from "open" to "closed".
ChainEdges ==
    {<<"undefined", "connecting">>, <<"closed", "connecting">>,
     <<"connecting", "open">>,
     <<"open", "closing">>, <<"open", "failed">>, <<"open", "closed">>,
     <<"closing", "failed">>, <<"closing", "closed">>,
     <<"failed", "closed">>}

\* The same with the move of a handshake that fails or is aborted.
LifeCycleEdges == ChainEdges \cup {<<"connecting", "failed">>}

\* C18 as stated: the connection only moves along Disconnected ->
\* Connecting -> Connected -> (Closing | Failed) -> Disconnected.
C18_OnlyAlongChain ==
    [][ws' # ws => <<ws.state, ws'.state>> \in ChainEdges]_vars

\* C18: the connection moves along Disconnected -> Connecting -> Connected
\* -> (Closing | Failed) -> Disconnected or, when the handshake fails or is
\* aborted, Disconnected -> Connecting -> Failed -> Disconnected; a new
\* handle is created only from Disconnected, Connected is reached only from
\* Connecting, and no handle is left behind alive by a connect.
C18_LifeCycle ==
    [][/\ ws' # ws => <<ws.state, ws'.state>> \in LifeCycleEdges
       /\ OpensConnection => ~Alive(ws)
       /\ others' = <<>>]_vars

\* The handshake of a second handle has failed.
C18_Witness ==
    /\ ws.state = "failed"
    /\ ~ws.opened
    /\ reconnectAttempts >= 1
    /\ ~closedByUser

\* The handles that are open or in their handshake.
LiveHandles ==
    {p \in Positions : SockAt(p).state \in {"connecting", "open"}}

\* C19: at any time at most one handle is open or connecting, at most one
\* reconnect timer is pending, and no reconnect timer is pending while a
\* handle is open or connecting.
C19_OneConnection ==
    /\ Cardinality(LiveHandles) <= 1
    /\ Len(reconnectTimers) <= 1
    /\ Cardinality(LiveHandles) + Len(reconnectTimers) <= 1

\* After two consecutive failures the worker, whose symbols were fetched,
\* is in the handshake of its third handle.
C19_Witness ==
    /\ ws.state = "connecting"
    /\ ws.streams = <<"b">>
    /\ reconnectAttempts >= 2
    /\ ~explicitSymbols

\* A step in which a reconnect timer fires: the timer is gone because its
\* callback has run, not because the process has ended.
ReconnectTimerFires ==
    pc' # "exited" /\ Len(reconnectTimers') < Len(reconnectTimers)

\* C20: connect() with an empty tracked set is a no-op: the reconnect timer
\* that fires while the tracked set is empty creates no handle, schedules
\* no timer and leaves the attempt counter as it is.
C20_ConnectNoOpWhenEmpty ==
    [][(ReconnectTimerFires /\ Len(trackedSymbols) = 0)
          => /\ ws' = ws
             /\ others' = others
             /\ reconnectAttempts' = reconnectAttempts
             /\ Len(reconnectTimers') = Len(reconnectTimers) - 1]_vars

\* The reconnect timer of a closed handle has fired on an empty tracked
\* set.
C20_Witness ==
    /\ Len(trackedSymbols) = 0
    /\ ws.state = "closed"
    /\ reconnectTimers = <<>>
    /\ reconnectAttempts = 1
    /\ ~closedByUser

-----------------------------------------------------------------------------
(* Claims about the threshold settings (SpecSettings).                     *)

SettingsIds == 1..Len(settingsLog)

\* The answered refresh r applied what it fetched: threshold and marker
\* are the fetched ones.
SettingsApplied(r) ==
    /\ r.thresholdAfter = r.settings.spotVolumeThreshold
    /\ r.markerAfter = r.settings.updatedAt

\* The answered refresh r left threshold and marker as they were.
SettingsSkipped(r) ==
    /\ r.thresholdAfter = r.threshold
    /\ r.markerAfter = r.marker

\* C25 as stated: a fetched threshold is applied only when the fetched
\* updatedAt differs from the marker last applied; an answered refresh
\* whose fetched updatedAt is the marker (null for an answer without
\* updatedAt, null for a marker never set) leaves the threshold and the
\* marker as they were, whatever the fetched threshold.
C25_AppliedOnlyWhenMarkerDiffers ==
    \A k \in SettingsIds :
        settingsLog[k].settings.updatedAt = settingsLog[k].marker
            => SettingsSkipped(settingsLog[k])

\* C25: while no marker is set (nothing applied yet, or what was applied
\* carried no updatedAt) every answered refresh applies the fetched
\* threshold and takes the fetched updatedAt as marker; once a marker is
\* set, a refresh applies them exactly when the fetched updatedAt is
\* present and is not the marker, and otherwise leaves the threshold and
\* the marker as they were, whatever the fetched threshold.
C25_AppliedOnlyOnNewMarker ==
    \A k \in SettingsIds :
        LET r == settingsLog[k] IN
        IF \/ r.marker = ""
           \/ r.settings.updatedAt # "" /\ r.settings.updatedAt # r.marker
        THEN SettingsApplied(r)
        ELSE SettingsSkipped(r)

\* A refresh fetched the marker already applied, with another threshold,
\* and changed nothing.
C25_Witness ==
    \E k \in SettingsIds :
        /\ settingsLog[k].settings.updatedAt # ""
        /\ settingsLog[k].settings.updatedAt = settingsLog[k].marker
        /\ settingsLog[k].settings.spotVolumeThreshold
               # settingsLog[k].threshold
        /\ SettingsSkipped(settingsLog[k])

\* The threshold in force when trade k was evaluated: the one the latest
\* settings answer before it left, or the threshold of the start.
InForceAt(k) ==
    LET ids == {j \in SettingsIds : settingsLog[j].trades < k}
    IN  IF ids = {}
        THEN IF settingsLog = <<>> THEN volumeThresholdUsd
             ELSE settingsLog[1].threshold
        ELSE settingsLog[CHOOSE j \in ids : \A i \in ids : i <= j]
                 .thresholdAfter

\* The trade of the same symbol handled last before trade k, 0 if none.
PreviousOf(k) ==
    LET ids == {j \in 1..(k - 1) : tradeLog[j].symbol = tradeLog[k].symbol}
    IN  IF ids = {} THEN 0 ELSE CHOOSE j \in ids : \A i \in ids : i <= j

\* Every trade is evaluated against the threshold the latest reload left,
\* on a running sum that carries over from the trade before.
EvaluatedAgainstReloaded ==
    \A k \in TradeIds :
        /\ tradeLog[k].fired
              <=> /\ tradeLog[k].sum >= InForceAt(k)
                  /\ ~(/\ tradeLog[k].last # 0
                       /\ tradeLog[k].at - tradeLog[k].last
                              < notificationCooldownMs)
        /\ (PreviousOf(k) # 0 /\ tradeLog[PreviousOf(k)].at = tradeLog[k].at)
              => tradeLog[k].sum
                     = tradeLog[PreviousOf(k)].sum + tradeLog[k].value

\* C26: a step that changes the threshold leaves the windows, the cooldown
\* records, the symbols and the connection as they are, and the next trade
\* evaluated is measured against the new threshold on the running sum the
\* window had before the reload.
C26_HotReload ==
    /\ []EvaluatedAgainstReloaded
    /\ [][volumeThresholdUsd' # volumeThresholdUsd
             => UNCHANGED <<windows, lastBroadcastAt, dispatchLog, connVars,
                            trackedSymbols>>]_vars

\* A reload raised the threshold between two trades of one symbol; the
\* second, whose sum holds the first and would have met the old threshold,
\* started no broadcast.
C26_Witness ==
    \E j \in SettingsIds : \E k \in TradeIds :
        /\ settingsLog[j].thresholdAfter > settingsLog[j].threshold
        /\ k = settingsLog[j].trades + 1
        /\ j = Len(settingsLog)
        /\ PreviousOf(k) # 0
        /\ tradeLog[k].sum > tradeLog[k].value
        /\ tradeLog[k].sum >= settingsLog[j].threshold
        /\ tradeLog[k].sum < settingsLog[j].thresholdAfter
        /\ tradeLog[k].last = 0
        /\ ~tradeLog[k].fired

-----------------------------------------------------------------------------
(* Claims about reconciliation while trades arrive (SpecReconcile).        *)

\* The non-empty value of BINANCE_SYMBOLS.
PinnedList == CHOOSE l \in EnvSymbolLists : Len(l) > 0

\* C21: with symbols pinned at startup the symbol source is never fetched,
\* the tracked set stays the pinned list, no window or cooldown record is
\* ever removed and the connection is never closed for a reconnect.
C21_PinnedNeverReconciled ==
    /\ [](explicitSymbols
            => /\ trackedSymbols = PinnedList
               /\ refreshFetches = 0
               /\ pc # "fetching"
               /\ ws.state # "closing"
               /\ others = <<>>)
    /\ [][explicitSymbols
            => /\ DOMAIN windows \subseteq DOMAIN windows'
               /\ \A s \in DOMAIN windows :
                      Len(windows'[s].entries) >= Len(windows[s].entries)
               /\ \A s \in DOMAIN lastBroadcastAt :
                      /\ s \in DOMAIN lastBroadcastAt'
                      /\ lastBroadcastAt'[s] >= lastBroadcastAt[s]]_vars

\* The pinned worker runs with its refresh timer armed, on an open
\* connection, holding a window and a cooldown record.
C21_Witness ==
    /\ explicitSymbols
    /\ pc = "running"
    /\ refreshTimers > 0
    /\ ws.state = "open"
    /\ DOMAIN windows # {}
    /\ DOMAIN lastBroadcastAt # {}
    /\ Len(tradeLog) = ReconcileTrades

\* C23: with discovered symbols, every key of windows and of lastBroadcastAt
\* is a tracked symbol.
C23_StateOnlyForTracked ==
    ~explicitSymbols
        => /\ DOMAIN windows \subseteq Range(trackedSymbols)
           /\ DOMAIN lastBroadcastAt \subseteq Range(trackedSymbols)

\* What a reconciliation with the fetched list leaves of the active set A:
\* the tracked set is the normalized list F; when F differs from A the
\* symbols of A \ F lose window and cooldown record, those of A \cap F keep
\* theirs; when F is A nothing changes.
DiffOfActive(symbols) ==
    LET A == Range(trackedSymbols)
        F == Range(symbols)
    IN  IF F # A
        THEN /\ trackedSymbols' = UniqueSorted(symbols)
             /\ \A s \in A \ F :
                    s \notin DOMAIN windows' /\ s \notin DOMAIN lastBroadcastAt'
             /\ \A s \in A \cap F :
                    /\ s \in DOMAIN windows
                         => s \in DOMAIN windows' /\ windows'[s] = windows[s]
                    /\ s \notin DOMAIN windows => s \notin DOMAIN windows'
                    /\ s \in DOMAIN lastBroadcastAt
                         => /\ s \in DOMAIN lastBroadcastAt'
                            /\ lastBroadcastAt'[s] = lastBroadcastAt[s]
                    /\ s \notin DOMAIN lastBroadcastAt
                         => s \notin DOMAIN lastBroadcastAt'
        ELSE UNCHANGED <<trackedSymbols, windows, lastBroadcastAt, connVars>>

\* A symbol that enters the tracked set starts with no window and no
\* cooldown record.
EnteringStartEmpty(symbols) ==
    \A s \in Range(symbols) \ Range(trackedSymbols) :
        s \notin DOMAIN windows' /\ s \notin DOMAIN lastBroadcastAt'

\* The diff without the clause on entering symbols holds.
ReconcileDiffOfActive ==
    [][\A symbols \in FetchedLists :
           RefreshOk(symbols) => DiffOfActive(symbols)]_vars

\* C22: an answered refresh on active set A with fetched list F leaves the
\* tracked set F, purges A \ F, keeps A \cap F, and the symbols of F \ A
\* have no window or cooldown record; with F = A nothing changes.
C22_ReconcileDiff ==
    [][\A symbols \in FetchedLists :
           RefreshOk(symbols)
               => DiffOfActive(symbols) /\ EnteringStartEmpty(symbols)]_vars

-----------------------------------------------------------------------------
(* Claims about failed fetches (SpecFetch).                                *)

\* A step in which a symbol fetch, an alerts fetch or a settings fetch
\* fails.
FetchFails ==
    StartFetchFail \/ RefreshFail \/ LoadAlertsFail \/ SettingsFail

\* C24: a failed symbol, alerts or settings fetch leaves the tracked
\* symbols, the windows, the cooldown records, the alerts and the threshold
\* as they were, and the connection as it was: no handle closed, none
\* opened, no reconnect scheduled.
C24_FailureKeepsState ==
    [][FetchFails
          => UNCHANGED <<trackedSymbols, windows, lastBroadcastAt,
                         triggeredAlerts, groupedAlerts, volumeThresholdUsd,
                         lastSettingsUpdatedAt, connVars>>]_vars

-----------------------------------------------------------------------------
(* Claims about the evaluation of rules (SpecRules).                       *)

\* The rule handlePriceUpdate evaluates first for a message: the first
\* rule of the symbol that has a threshold.
FirstEvaluated(symbol) ==
    LET rules == groupedAlerts[symbol]
        ids == {i \in 1..Len(rules) : rules[i].targetPrice # <<>>}
    IN  rules[CHOOSE i \in ids : \A j \in ids : i <= j]

\* The step starts a dispatch for the rule.
StartsDispatchOf(rule) ==
    /\ Len(alertLog') = Len(alertLog) + 1
    /\ alertLog'[Len(alertLog')].alertId = rule.id

\* The price the symbol had before the message, <<>> when it had none.
PreviousValue(symbol) ==
    IF symbol \in DOMAIN lastPrices THEN <<lastPrices[symbol]>> ELSE <<>>

\* The step handles a ticker message of price c for a symbol whose first
\* evaluated rule has one of the operators.
Evaluates(m, operators) ==
    /\ TickerWsMessage(m, <<>>)
    /\ Truthy(m.c)
    /\ m.s \in DOMAIN groupedAlerts
    /\ FirstEvaluated(m.s).operator \in operators

\* C27: a crosses_above rule starts a dispatch exactly when the symbol had
\* a previous price and previous < threshold <= current; a crosses_below
\* rule exactly when it had one and previous > threshold >= current.
C27_Crossing ==
    [][\A m \in RuleMessages :
          LET rule == FirstEvaluated(m.s)
              previous == PreviousValue(m.s)
              threshold == rule.targetPrice[1]
          IN  /\ Evaluates(m, {"crosses_above"})
                    => (StartsDispatchOf(rule)
                          <=> /\ previous # <<>>
                              /\ previous[1] < threshold
                              /\ threshold <= m.c[1])
              /\ Evaluates(m, {"crosses_below"})
                    => (StartsDispatchOf(rule)
                          <=> /\ previous # <<>>
                              /\ previous[1] > threshold
                              /\ threshold >= m.c[1])]_vars

\* An upward crossing started a dispatch, and a later update that stayed
\* above the threshold started none.
C27_Witness ==
    /\ Len(alertLog) = 1
    /\ alertLog[1].alertId = "up"
    /\ alertLog[1].previous = <<1>>
    /\ alertLog[1].price = 3
    /\ alertLog[1].status = "ok"
    /\ priceUpdates = <<>>
    /\ "up" \in DOMAIN triggeredAlerts
    /\ lastPrices["a"] = 2

\* C28: a gte rule starts a dispatch exactly when current >= threshold, an
\* lte rule exactly when current <= threshold, and a rule whose operator is
\* unknown or absent exactly when current >= threshold, whatever the
\* previous price.
C28_Comparison ==
    [][\A m \in RuleMessages :
          LET rule == FirstEvaluated(m.s)
              threshold == rule.targetPrice[1]
          IN  /\ Evaluates(m, {"gte", "sideways", ""})
                    => (StartsDispatchOf(rule) <=> m.c[1] >= threshold)
              /\ Evaluates(m, {"lte"})
                    => (StartsDispatchOf(rule) <=> m.c[1] <= threshold)]_vars

\* The rule with the unknown operator started a dispatch at a price equal
\* to the threshold, and another when the same price came again.
C28_Witness ==
    /\ Len(alertLog) = 2
    /\ alertLog[1].alertId = "odd"
    /\ alertLog[2].alertId = alertLog[1].alertId
    /\ alertLog[1].price = 2
    /\ alertLog[2].price = 2
    /\ alertLog[2].previous = <<2>>

\* The rules loaded that have no threshold.
WithoutThreshold ==
    {rule \in UNION {Range(groupedAlerts[s]) : s \in DOMAIN groupedAlerts} :
        rule.targetPrice = <<>> /\ rule.price = <<>>}

\* No dispatch has been started and no trigger time recorded for a rule
\* that has no threshold.
NeverTriggered ==
    \A rule \in WithoutThreshold :
        /\ rule.id \notin DOMAIN triggeredAlerts
        /\ \A k \in AlertCallIds : alertLog[k].alertId # rule.id

\* C29: as long as a rule has no threshold no dispatch is started for it
\* and it gets no trigger time, whatever prices arrive; the rule after it
\* on the same symbol starts a dispatch exactly when its own condition
\* holds.
C29_NoThresholdNoTrigger ==
    /\ []NeverTriggered
    /\ [][\A m \in RuleMessages :
             (/\ TickerWsMessage(m, <<>>)
              /\ Truthy(m.c)
              /\ m.s \in DOMAIN groupedAlerts
              /\ groupedAlerts[m.s][1] \in WithoutThreshold)
                 => (StartsDispatchOf(groupedAlerts[m.s][2])
                        <=> m.c[1] >= groupedAlerts[m.s][2].targetPrice[1])
          ]_vars

\* Prices below and above have arrived for the symbol of a rule without a
\* threshold; only the rule after it was dispatched, twice.
C29_Witness ==
    /\ WithoutThreshold # {}
    /\ Len(alertLog) = 2
    /\ \A k \in AlertCallIds :
           alertLog[k].alertId = "ge" /\ alertLog[k].status = "ok"
    /\ alertLog[1].previous = <<1>>
    /\ priceUpdates = <<>>
    /\ DOMAIN triggeredAlerts = {"ge"}

-----------------------------------------------------------------------------
(* Claims about a cooldown of 0 (SpecNoCooldown).                          *)

\* Trade k reached the threshold and the broadcast for it was started.
DispatchedFor(k) ==
    LET i == Len(tradeLog[k].before) + 1
    IN  /\ i <= Len(dispatchLog)
        /\ dispatchLog[i].symbol = tradeLog[k].symbol
        /\ dispatchLog[i].volumeUsd = tradeLog[k].sum
        /\ dispatchLog[i].at = tradeLog[k].at

\* The rule evaluated at a price update that satisfies it starts a
\* dispatch whenever its resolved cooldown is 0.
ZeroCooldownRuleDispatches ==
    [][\A m \in RuleMessages :
          LET rule == FirstEvaluated(m.s)
          IN  (/\ TickerWsMessage(m, <<>>)
               /\ Truthy(m.c)
               /\ m.s \in DOMAIN groupedAlerts
               /\ resolveCooldown(rule) = 0
               /\ shouldTriggerAlert(rule, m.c[1], PreviousValue(m.s)))
                  => StartsDispatchOf(rule)]_vars

-----------------------------------------------------------------------------
(* Claims about what the trade socket delivers (SpecMessages).             *)

\* The payload lacks the symbol, the price or the quantity.
Malformed(m) == m.s = "" \/ m.p = <<>> \/ m.q = <<>>

\* C31: a payload that lacks symbol, price or quantity is dropped by the
\* handler: windows, cooldown records, threshold, tracked symbols, handles,
\* reconnect counter and timers are unchanged and no broadcast is started.
C31_MalformedDropped ==
    [][\A m \in RawTrades :
          (WsMessage(0, m, 0) /\ Malformed(m))
              => /\ dropped' = dropped + 1
                 /\ UNCHANGED <<windows, lastBroadcastAt, volumeThresholdUsd,
                                trackedSymbols, connVars, dispatchLog,
                                tradeLog>>]_vars

\* Payloads were dropped after a trade had opened a window and started a
\* broadcast; the connection is open as before.
C31_Witness ==
    /\ dropped = MaxDropped
    /\ Len(tradeLog) = 1
    /\ Len(dispatchLog) = 1
    /\ DOMAIN windows = {tradeLog[1].symbol}
    /\ windows[tradeLog[1].symbol].sum = tradeLog[1].sum
    /\ ws.state = "open"
    /\ reconnectAttempts = 0
    /\ reconnectTimers = <<>>

\* C32: every value handed to window.add is non-negative, and the sum of a
\* window is never smaller after a trade than the sum before it while
\* nothing is evicted.
C32_OnlyNonNegativeValues ==
    \A k \in TradeIds :
        /\ tradeLog[k].value >= 0
        /\ (PreviousOf(k) # 0 /\ tradeLog[PreviousOf(k)].at = tradeLog[k].at)
              => tradeLog[k].sum >= tradeLog[PreviousOf(k)].sum

----------------------------------------------------------------------------
(* Claims about trades handled while a broadcast is pending (SpecTrade).   *)

\* A broadcast call is pending.
DispatchPending == \E i \in DispatchIds : dispatchLog[i].status = "pending"

\* C33: a trade that arrives while a broadcast call is pending is handled
\* at once: its entry is appended to the window of its symbol and the sum
\* of that window is the evicted sum plus its value; and the step that
\* completes a broadcast, delivered or failed, leaves every window and
\* every cooldown record as it was.
C33_DispatchNeverBlocks ==
    [][ /\ (\E i \in DispatchIds : BroadcastOk(i) \/ BroadcastFail(i))
            => UNCHANGED <<windows, lastBroadcastAt>>
        /\ \A p \in Positions, m \in UnstampedTrades :
              (DispatchPending /\ WsMessage(p, m, 0))
                  => LET t == parseTradeMessage(m)
                         w == windows'[t.symbol]
                     IN  /\ Len(tradeLog') = Len(tradeLog) + 1
                         /\ w.entries[Len(w.entries)]
                               = [ts |-> now, value |-> t.quoteUsd]
                         /\ w.sum = getSum(prune(getWindow(t.symbol), now,
                                                 volumeWindowMs)) + t.quoteUsd
      ]_vars

\* A broadcast was pending while a later trade of the same symbol and one
\* of another symbol were handled and raised the sums of their windows;
\* the broadcast has since completed and the windows hold those sums.
C33_Witness ==
    \E i \in DispatchIds : \E j, k \in TradeIds :
        /\ dispatchLog[i].status # "pending"
        /\ j < k
        /\ tradeLog[j].symbol = dispatchLog[i].symbol
        /\ tradeLog[k].symbol # dispatchLog[i].symbol
        /\ Len(tradeLog[j].before) >= i
        /\ tradeLog[j].before[i].status = "pending"
        /\ tradeLog[k].before[i].status = "pending"
        /\ tradeLog[j].sum > tradeLog[j].value
        /\ windows[tradeLog[j].symbol].sum = tradeLog[j].sum
        /\ windows[tradeLog[k].symbol].sum = tradeLog[k].sum

----------------------------------------------------------------------------
(* Claims about overlapping settings refreshes (SpecOverlap).              *)

\* The updatedAt markers the settings endpoint hands out, oldest first.
MarkerOrder == <<"t1", "t2">>

MarkerRank(marker) ==
    IF marker = "" THEN 0
    ELSE CHOOSE i \in 1..Len(MarkerOrder) : MarkerOrder[i] = marker

\* control.refreshSettings() is called MaxSettingsCalls times before any of
\* the fetches is answered (overlapping POST /refresh-settings requests);
\* the answers then arrive one by one, in any order.
OverlapNext ==
    \/ RefreshSettings
    \/ /\ Len(settingsLog) + settingsFetches = MaxSettingsCalls
       /\ \E payload \in SettingsPayloads : SettingsOk(payload)

SpecOverlap == RunningInit /\ [][OverlapNext]_vars

\* Answer k and answer k + 1 both arrived.
Overlapping(k) == k \in SettingsIds /\ k + 1 \in SettingsIds

\* C35 as stated: of two overlapping refreshes, an answer carrying an older
\* updatedAt that arrives after the answer carrying a newer one leaves the
\* threshold and the marker the newer one set.
C35_NewestMarkerWins ==
    \A k \in SettingsIds :
        (/\ Overlapping(k)
         /\ settingsLog[k].markerAfter = settingsLog[k].settings.updatedAt
         /\ MarkerRank(settingsLog[k + 1].settings.updatedAt) > 0
         /\ MarkerRank(settingsLog[k + 1].settings.updatedAt)
                < MarkerRank(settingsLog[k].markerAfter))
            => /\ settingsLog[k + 1].thresholdAfter
                      = settingsLog[k].thresholdAfter
               /\ settingsLog[k + 1].markerAfter = settingsLog[k].markerAfter

----------------------------------------------------------------------------
(* Claims about when handleTrade starts a broadcast (SpecSettings).        *)

\* The cooldown record of the symbol of trade k as trade k left it.
RecordAfter(k) ==
    IF tradeLog[k].fired THEN tradeLog[k].at ELSE tradeLog[k].last

\* C37: a trade starts a broadcast only if the sum of its window after
\* eviction has reached the threshold in force when it is handled, and the
\* volume sent is that sum; a trade whose sum is below that threshold starts
\* none and leaves the cooldown record of its symbol as it found it; there
\* are as many broadcasts as trades that started one, and every cooldown
\* record is the decision time of a broadcast started for its symbol.
C37_DispatchOnlyAtThreshold ==
    /\ \A k \in TradeIds :
          /\ tradeLog[k].fired
                => /\ tradeLog[k].sum >= InForceAt(k)
                   /\ DispatchedFor(k)
          /\ tradeLog[k].sum < InForceAt(k) => ~tradeLog[k].fired
          /\ PreviousOf(k) # 0
                => tradeLog[k].last = RecordAfter(PreviousOf(k))
          /\ PreviousOf(k) = 0 => tradeLog[k].last = 0
    /\ Len(dispatchLog) = Cardinality({k \in TradeIds : tradeLog[k].fired})
    /\ \A s \in DOMAIN lastBroadcastAt :
          \E i \in DispatchIds :
              /\ dispatchLog[i].symbol = s
              /\ dispatchLog[i].at = lastBroadcastAt[s]

\* A trade left its sum below the threshold in force and started nothing;
\* after a reload the next trade of the symbol reached the new threshold
\* and started the broadcast that wrote the symbol's only cooldown record.
C37_Witness ==
    \E j, k \in TradeIds :
        /\ k = PreviousOf(j)
        /\ tradeLog[k].sum < InForceAt(k)
        /\ ~tradeLog[k].fired
        /\ tradeLog[j].last = 0
        /\ InForceAt(j) # InForceAt(k)
        /\ tradeLog[j].fired
        /\ tradeLog[j].sum >= InForceAt(j)
        /\ lastBroadcastAt = MapSet(EmptyMap, tradeLog[j].symbol, tradeLog[j].at)

----------------------------------------------------------------------------
(* Claims about the rolling window under any order of stamps (SpecWindow). *)

RECURSIVE SumOfEntries(_)
SumOfEntries(entries) ==
    IF entries = <<>> THEN 0
    ELSE entries[1].value + SumOfEntries(Tail(entries))

\* The trades of the symbol of trade k, up to k, stamped at or after the
\* cutoff of the moment trade k is handled.
InWindowAt(k) ==
    {j \in UpTo(k) : tradeLog[j].ts >= tradeLog[k].at - volumeWindowMs}

\* The running sum of every window is the sum of the entries it retains,
\* and the sum a trade reads is not below the sum of the trades of its
\* symbol that are within the window at that moment.
SumIsSumOfRetained ==
    /\ \A s \in DOMAIN windows :
          windows[s].sum = SumOfEntries(windows[s].entries)
    /\ \A k \in TradeIds : tradeLog[k].sum >= SumOfTrades(InWindowAt(k))

\* What add and prune did in the step that handled a trade: the entries
\* retained are the old entries and the new one, less a prefix of entries
\* stamped before the cutoff that ends at the first entry not before it.
PrunedFromFront ==
    tradeLog' # tradeLog
        => LET t == tradeLog'[Len(tradeLog')]
               all == Append(getWindow(t.symbol).entries,
                             [ts |-> t.ts, value |-> t.value])
               kept == windows'[t.symbol].entries
               n == Len(all) - Len(kept)
           IN  /\ n >= 0
               /\ kept = SubSeq(all, n + 1, Len(all))
               /\ \A i \in 1..n : all[i].ts < t.at - volumeWindowMs
               /\ n < Len(all) => all[n + 1].ts >= t.at - volumeWindowMs

\* C38: under trades stamped in any order the running sum is the sum of the
\* retained entries, eviction removes only a prefix of entries older than
\* the cutoff and stops at the first entry that is not, and the sum read is
\* never below the sum of the entries within the window.
C38_SumOfRetainedEntries ==
    /\ []SumIsSumOfRetained
    /\ [][PrunedFromFront]_vars

\* Stamps arrived out of order: when trade k was handled an entry older
\* than the cutoff stayed behind a newer one at the front, and the sum read
\* was above the sum of the trades within the window.
C38_Witness ==
    \E k \in TradeIds :
        /\ ~MonotoneUpTo(k)
        /\ Len(tradeLog) = k
        /\ \E i \in 2..Len(windows[tradeLog[k].symbol].entries) :
              windows[tradeLog[k].symbol].entries[i].ts
                  < tradeLog[k].at - volumeWindowMs
        /\ windows[tradeLog[k].symbol].entries[1].ts
               >= tradeLog[k].at - volumeWindowMs
        /\ tradeLog[k].sum > SumOfTrades(InWindowAt(k))

----------------------------------------------------------------------------
(* Claims about the cooldown a rule resolves to (SpecCooldown).            *)

\* The rule a trigger call was made for.
RuleOf(k) ==
    LET rules == groupedAlerts[alertLog[k].symbol]
    IN  rules[CHOOSE i \in 1..Len(rules) :
                  resolveAlertId(rules[i]) = alertLog[k].alertId]

\* The first of cooldownMs, cooldownSeconds, cooldown that is present,
\* cooldownSeconds in seconds and the others in milliseconds; 0 if none is.
FirstPresent(alert) ==
    IF alert.cooldownMs # <<>> THEN alert.cooldownMs[1]
    ELSE IF alert.cooldownSeconds # <<>> THEN alert.cooldownSeconds[1] * 1000
    ELSE IF alert.cooldown # <<>> THEN alert.cooldown[1]
    ELSE 0

\* C39 as stated: the cooldown a trigger call was made under is the first
\* present candidate of its rule, so cooldownMs as it is whenever the rule
\* carries one.
C39_FirstPresentCandidate ==
    \A k \in AlertCallIds : alertLog[k].cooldown = FirstPresent(RuleOf(k))

----------------------------------------------------------------------------
(* Claims about price updates between alert refreshes (SpecAlertRefresh).  *)

\* The price of the update accepted last for the symbol, <<>> when none
\* was.
LastAccepted(symbol) ==
    IF symbol \in DOMAIN accepted THEN <<accepted[symbol]>> ELSE <<>>

\* C34 as stated: for every symbol that has rules, the previous value the
\* next evaluation is given is the price of the update accepted last for
\* that symbol, also when that update came while the symbol had no rules.
C34_PreviousIsLastAccepted ==
    \A s \in DOMAIN groupedAlerts : PreviousValue(s) = LastAccepted(s)

\* C36: an answered alert refresh leaves no trigger time, a failed one
\* leaves them all; and a price update that satisfies the condition of a
\* rule without a trigger time starts a dispatch for it.
C36_RefreshClearsCooldowns ==
    [][ /\ \A alerts \in RefreshedLists :
              LoadAlertsOk(alerts) => triggeredAlerts' = EmptyMap
        /\ LoadAlertsFail => triggeredAlerts' = triggeredAlerts
        /\ \A m \in TickerMessages :
              LET rule == FirstEvaluated(m.s)
              IN  (/\ TickerWsMessage(m, <<>>)
                   /\ Truthy(m.c)
                   /\ m.s \in DOMAIN groupedAlerts
                   /\ rule.id \notin DOMAIN triggeredAlerts
                   /\ shouldTriggerAlert(rule, m.c[1], PreviousValue(m.s)))
                      => StartsDispatchOf(rule)
      ]_vars

\* A dispatch for a rule with a cooldown was answered 2xx, and a second
\* dispatch for the same rule, still in the refreshed list, was started
\* before the cooldown had elapsed.
C36_Witness ==
    \E i, j \in AlertCallIds :
        /\ i < j
        /\ alertLog[i].alertId = alertLog[j].alertId
        /\ alertLog[j].cooldown > 0
        /\ alertLog[j].before[i] = "ok"
        /\ alertLog[j].at - alertLog[i].at < alertLog[j].cooldown
        /\ alertLog[j].at > alertLog[i].at

====
